---- MODULE Spec2Model ----
(***************************************************************************)
(* A model of the SlopScan code feature extraction engine                  *)
(* (backend/app/services/code_extractor.py): the grammar registry,         *)
(* detect_language, extract_features with its per-language rule sets, the  *)
(* normalisation step and the regex based fallback extraction.             *)
(*                                                                         *)
(* Text is modelled as a sequence of one-character strings, so that        *)
(* strip(), lower(), slicing and regular expression matching are computed  *)
(* character by character as the library computes them.                    *)
(***************************************************************************)
EXTENDS Integers, Sequences, FiniteSets, TLC

(***************************************************************************)
(* Bounds of the model.                                                    *)
(***************************************************************************)
\* longest generated source text / file path (sample texts may be longer)
MaxCodeLen == 3
MaxPathLen == 3
\* the nesting depth the interpreter allows traverse() before it raises
\* RecursionError (sys.getrecursionlimit(), scaled to the sample trees)
RecursionLimit == 8

(***************************************************************************)
(* Python values.                                                          *)
(***************************************************************************)
\* Python's None (detect_language's "unsupported" result, an absent node)
None == "None"

\* the empty text ''
EmptyText == << >>

(***************************************************************************)
(* Character classes and str methods.                                      *)
(***************************************************************************)
UpperLetters ==
  <<"A","B","C","D","E","F","G","H","I","J","K","L","M",
    "N","O","P","Q","R","S","T","U","V","W","X","Y","Z">>

LowerLetters ==
  <<"a","b","c","d","e","f","g","h","i","j","k","l","m",
    "n","o","p","q","r","s","t","u","v","w","x","y","z">>

Digits == {"0","1","2","3","4","5","6","7","8","9"}

\* the characters str.strip() removes by default, and the regex class \s
Whitespace == {" ", "\t", "\n", "\r"}

\* the regex class \w
WordChars ==
  {UpperLetters[i] : i \in 1..26} \cup {LowerLetters[i] : i \in 1..26}
    \cup Digits \cup {"_"}

\* the two quote characters of strip('"\'')
QuoteChars == {"\"", "'"}

\* str.lower() on one character
LowerChar(c) ==
  IF \E i \in 1..26 : UpperLetters[i] = c
    THEN LowerLetters[CHOOSE i \in 1..26 : UpperLetters[i] = c]
    ELSE c

\* str.lower()
lower(s) == [i \in 1..Len(s) |-> LowerChar(s[i])]

\* s[a:b] for 0 <= a, b <= len(s) (Python slice, 0-based, end exclusive)
Slice(s, a, b) == IF a >= b THEN << >> ELSE SubSeq(s, a + 1, b)

\* str.startswith / str.endswith
startswith(s, p) == Len(p) <= Len(s) /\ SubSeq(s, 1, Len(p)) = p

endswith(s, p) ==
  Len(p) <= Len(s) /\ SubSeq(s, Len(s) - Len(p) + 1, Len(s)) = p

\* number of leading / trailing characters of s that belong to chars
LeadingRun(s, chars) ==
  IF \A i \in 1..Len(s) : s[i] \in chars
    THEN Len(s)
    ELSE (CHOOSE i \in 1..Len(s) :
            s[i] \notin chars /\ \A j \in 1..(i - 1) : s[j] \in chars) - 1

TrailingRun(s, chars) ==
  IF \A i \in 1..Len(s) : s[i] \in chars
    THEN Len(s)
    ELSE Len(s) - (CHOOSE i \in 1..Len(s) :
            s[i] \notin chars /\ \A j \in (i + 1)..Len(s) : s[j] \in chars)

\* str.strip(chars): removes EVERY leading and trailing character in chars
strip_chars(s, chars) ==
  IF \A i \in 1..Len(s) : s[i] \in chars
    THEN << >>
    ELSE SubSeq(s, LeadingRun(s, chars) + 1, Len(s) - TrailingRun(s, chars))

\* str.strip()
strip(s) == strip_chars(s, Whitespace)

\* all texts over an alphabet of length at most n
TextsUpTo(alphabet, n) == UNION {[1..k -> alphabet] : k \in 0..n}

(***************************************************************************)
(* The grammar registry.                                                   *)
(***************************************************************************)
\* lang_mappings, in dict (insertion) order
lang_mappings ==
  <<"python", "javascript", "java", "cpp", "c", "go", "rust", "ruby", "php">>

\* every language key _init_languages can register
RegistryLanguages ==
  {lang_mappings[i] : i \in 1..Len(lang_mappings)} \cup {"typescript", "tsx"}

\* The loop of _init_languages over lang_mappings[i..]: a language whose
\* grammar does not load (ImportError, no language function, any other
\* exception) is skipped, the others are added to the registry.
RECURSIVE InitLoop(_, _, _)
InitLoop(reg, ok, i) ==
  IF i > Len(lang_mappings)
    THEN reg
    ELSE InitLoop(IF lang_mappings[i] \in ok
                    THEN reg \cup {lang_mappings[i]}
                    ELSE reg,
                  ok, i + 1)

\* The typescript/tsx block of _init_languages: one try statement, which
\* registers typescript, then tsx, and stops at the first failure.
InitTypeScript(reg, ok) ==
  IF "typescript" \notin ok
    THEN reg
    ELSE IF "tsx" \notin ok
           THEN reg \cup {"typescript"}
           ELSE reg \cup {"typescript", "tsx"}

\* _init_languages run on a registry with keys reg, when ok is the set of
\* languages whose grammar loads; the result is the key set of self.parsers
\* (self.languages is assigned the same keys on the same lines)
_init_languages(reg, ok) == InitTypeScript(InitLoop(reg, ok, 1), ok)

(***************************************************************************)
(* detect_language.                                                        *)
(***************************************************************************)
ext_to_lang ==
  (<<".","p","y">> :> "python") @@
  (<<".","j","s">> :> "javascript") @@
  (<<".","j","s","x">> :> "javascript") @@
  (<<".","t","s">> :> "typescript") @@
  (<<".","t","s","x">> :> "tsx") @@
  (<<".","j","a","v","a">> :> "java") @@
  (<<".","c","p","p">> :> "cpp") @@
  (<<".","c","x","x">> :> "cpp") @@
  (<<".","c","c">> :> "cpp") @@
  (<<".","c">> :> "c") @@
  (<<".","h">> :> "c") @@
  (<<".","h","p","p">> :> "cpp") @@
  (<<".","g","o">> :> "go") @@
  (<<".","r","s">> :> "rust") @@
  (<<".","r","b">> :> "ruby") @@
  (<<".","p","h","p">> :> "php")

\* last index of character c in s, 0 when absent
LastIndexOf(s, c) ==
  IF \E i \in 1..Len(s) : s[i] = c
    THEN CHOOSE i \in 1..Len(s) : s[i] = c /\ \A j \in (i + 1)..Len(s) : s[j] # c
    ELSE 0

\* Path(file_path).name: the final path component; empty components and
\* '.' components are dropped when the path is parsed
RECURSIVE PathName(_)
PathName(p) ==
  LET k == LastIndexOf(p, "/")
      comp == SubSeq(p, k + 1, Len(p))
  IN  IF comp = << >> \/ comp = <<".">>
        THEN IF k = 0 THEN << >> ELSE PathName(SubSeq(p, 1, k - 1))
        ELSE comp

\* Path(file_path).suffix: name[i:] for i = name.rfind('.') when
\* 0 < i < len(name) - 1, else ''
PathSuffix(p) ==
  LET name == PathName(p)
      j == LastIndexOf(name, ".")
  IN  IF 1 < j /\ j < Len(name) THEN SubSeq(name, j, Len(name)) ELSE << >>

\* a variant of detect_language that looks the suffix up as it is written,
\* without .lower()
detect_language_case_sensitive(file_path) ==
  LET suffix == PathSuffix(file_path)
  IN  IF suffix \in DOMAIN ext_to_lang THEN ext_to_lang[suffix] ELSE None

\* detect_language(file_path): ext_to_lang.get(suffix.lower())
detect_language(file_path) ==
  LET suffix == lower(PathSuffix(file_path))
  IN  IF suffix \in DOMAIN ext_to_lang THEN ext_to_lang[suffix] ELSE None

(***************************************************************************)
(* Regular expressions (module re), as the backtracking matcher computes   *)
(* them.  A pattern is a tree of records; Match returns every way the      *)
(* pattern can match at a position, in the order the matcher tries them,   *)
(* so that the head of the result is the match re reports.                 *)
(***************************************************************************)
\* one character that is (neg = FALSE) or is not (neg = TRUE) in chars
ReSet(chars, neg) == [op |-> "set", chars |-> chars, neg |-> neg]

\* one given character
ReChar(c) == ReSet({c}, FALSE)

\* '.', without re.DOTALL (any character but a newline) and with it
ReDot == ReSet({"\n"}, TRUE)

ReAny == ReSet({}, TRUE)

\* r1 r2 ... (concatenation), r1|r2|... (alternation)
ReCat(parts) == [op |-> "cat", parts |-> parts]

ReAlt(parts) == [op |-> "alt", parts |-> parts]

\* r{min,max}, max = -1 for no upper limit; greedy or lazy
ReRep(r, min, max, greedy) ==
  [op |-> "rep", r |-> r, min |-> min, max |-> max, greedy |-> greedy]

ReStar(r) == ReRep(r, 0, -1, TRUE)

RePlus(r) == ReRep(r, 1, -1, TRUE)

ReOpt(r) == ReRep(r, 0, 1, TRUE)

ReLazyStar(r) == ReRep(r, 0, -1, FALSE)

\* capturing group number n
ReGroup(n, r) == [op |-> "grp", n |-> n, r |-> r]

\* ([^q\\]|\\.)* for the quote character q, the group being number n
ReItems(n, q) == [op |-> "items", n |-> n, q |-> q]

\* a literal text
ReLit(text) == ReCat([i \in 1..Len(text) |-> ReChar(text[i])])

\* a group that did not take part in the match
Unset == <<"<unset>">>

RECURSIVE Match(_, _, _, _)
RECURSIVE MatchCat(_, _, _, _, _)
RECURSIVE MatchAlt(_, _, _, _, _)
RECURSIVE MatchRep(_, _, _, _, _)
RECURSIVE ThenCat(_, _, _, _, _, _)
RECURSIVE ThenRep(_, _, _, _, _, _)

\* the matches of parts[k..] after each of the matches rs[lo..hi] of
\* parts[k-1], in order (the range is halved to keep the evaluation shallow)
ThenCat(rs, lo, hi, parts, k, s) ==
  IF lo > hi
    THEN << >>
  ELSE IF lo = hi
    THEN MatchCat(parts, k, s, rs[lo].pos, rs[lo].caps)
  ELSE LET mid == (lo + hi) \div 2
       IN  ThenCat(rs, lo, mid, parts, k, s)
             \o ThenCat(rs, mid + 1, hi, parts, k, s)

MatchCat(parts, k, s, i, caps) ==
  IF k > Len(parts)
    THEN << [pos |-> i, caps |-> caps] >>
    ELSE LET rs == Match(parts[k], s, i, caps)
         IN  ThenCat(rs, 1, Len(rs), parts, k + 1, s)

MatchAlt(parts, k, s, i, caps) ==
  IF k > Len(parts)
    THEN << >>
    ELSE Match(parts[k], s, i, caps) \o MatchAlt(parts, k + 1, s, i, caps)

\* further repetitions after each of the matches rs[j..] of one repetition;
\* a repetition that consumed nothing is not repeated
ThenRep(rs, j, r, s, i, count) ==
  IF j > Len(rs)
    THEN << >>
    ELSE (IF rs[j].pos > i
            THEN MatchRep(r, s, rs[j].pos, rs[j].caps, count + 1)
            ELSE << >>)
           \o ThenRep(rs, j + 1, r, s, i, count)

\* the repetition of r.r, after count repetitions: one more and on, or stop
MatchRep(r, s, i, caps, count) ==
  LET more == IF r.max = -1 \/ count < r.max
                THEN ThenRep(Match(r.r, s, i, caps), 1, r, s, i, count)
                ELSE << >>
      stop == IF count >= r.min
                THEN << [pos |-> i, caps |-> caps] >>
                ELSE << >>
  IN  IF r.greedy THEN more \o stop ELSE stop \o more

\* The repetition of a one-character pattern, which holds no group: the
\* matcher takes the run of characters that fit, up to max, and gives them
\* back one by one (greedy), or takes min and then one more at a time (lazy)
MatchSetRep(r, s, i, caps) ==
  LET fits(k) == (s[k] \in r.r.chars) # r.r.neg
      run == IF \A k \in (i + 1)..Len(s) : fits(k)
               THEN Len(s) - i
               ELSE (CHOOSE k \in (i + 1)..Len(s) :
                       ~fits(k) /\ \A j \in (i + 1)..(k - 1) : fits(j)) - i - 1
      most == IF r.max = -1 \/ run < r.max THEN run ELSE r.max
  IN  [j \in 1..(most - r.min + 1) |->
        [pos |-> IF r.greedy THEN i + most - (j - 1) ELSE i + r.min + (j - 1),
         caps |-> caps]]

\* The pattern ([^q\\]|\\.)* with its group numbered n: items of one
\* character other than q and the backslash, or of a backslash and one
\* character other than a newline.  An item matches in one way only, so the
\* repetitions form one chain of positions; the matcher follows it to its
\* end and gives the positions back from the last, the group holding the
\* last item taken.  A position is on the chain when every q before it is
\* escaped, no newline before it is escaped, and no escape is left open.
MatchItems(r, s, i, caps) ==
  LET \* the backslashes that end at character j, counted after position i
      run(j) ==
        IF j <= i \/ s[j] # "\\"
          THEN 0
          ELSE j - (CHOOSE k \in i..(j - 1) :
                      /\ k = i \/ s[k] # "\\"
                      /\ \A h \in (k + 1)..j : s[h] = "\\")
      escaped(k) == run(k - 1) % 2 = 1
      fine(k) == /\ s[k] = r.q => escaped(k)
                 /\ s[k] = "\n" => ~escaped(k)
      onchain(p) == /\ \A k \in (i + 1)..p : fine(k)
                    /\ run(p) % 2 = 0
      chain == {p \in i..Len(s) : onchain(p)}
      at(m) == CHOOSE p \in chain : Cardinality({x \in chain : x > p}) = m - 1
      item(p) == IF escaped(p) THEN Slice(s, p - 2, p) ELSE Slice(s, p - 1, p)
  IN  [m \in 1..Cardinality(chain) |->
        [pos |-> at(m),
         caps |-> IF at(m) = i THEN caps ELSE [caps EXCEPT ![r.n] = item(at(m))]]]

\* i is the number of characters of s already consumed
Match(r, s, i, caps) ==
  CASE r.op = "set" ->
         IF i < Len(s) /\ ((s[i + 1] \in r.chars) # r.neg)
           THEN << [pos |-> i + 1, caps |-> caps] >>
           ELSE << >>
    [] r.op = "cat" -> MatchCat(r.parts, 1, s, i, caps)
    [] r.op = "alt" -> MatchAlt(r.parts, 1, s, i, caps)
    [] r.op = "rep" ->
         IF r.r.op = "set"
           THEN MatchSetRep(r, s, i, caps)
           ELSE MatchRep(r, s, i, caps, 0)
    [] r.op = "items" -> MatchItems(r, s, i, caps)
    [] r.op = "grp" ->
         LET rs == Match(r.r, s, i, caps)
         IN  [j \in 1..Len(rs) |->
               [pos |-> rs[j].pos,
                caps |-> [rs[j].caps EXCEPT ![r.n] = Slice(s, i, rs[j].pos)]]]

\* what re.findall reports for one match of a pattern with ngroups groups:
\* the whole match, the group, or a tuple of the groups; a group that did
\* not take part is reported as ''
FindallItem(s, start, m, ngroups) ==
  LET grp(n) == IF m.caps[n] = Unset THEN << >> ELSE m.caps[n]
  IN  IF ngroups = 0 THEN Slice(s, start, m.pos)
      ELSE IF ngroups = 1 THEN grp(1)
      ELSE [n \in 1..ngroups |-> grp(n)]

\* re.findall(pattern, s) scanning from offset start: the leftmost match is
\* reported, and the scan resumes at its end (one further on after an empty
\* match)
RECURSIVE FindallFrom(_, _, _, _)
FindallFrom(r, ngroups, s, start) ==
  LET caps0 == [n \in 1..ngroups |-> Unset]
      starts == {i \in start..Len(s) : Match(r, s, i, caps0) # << >>}
  IN  IF starts = {}
        THEN << >>
        ELSE LET i == CHOOSE a \in starts : \A b \in starts : a <= b
                 m == Match(r, s, i, caps0)[1]
             IN  << FindallItem(s, i, m, ngroups) >>
                   \o FindallFrom(r, ngroups, s,
                                  IF m.pos > i THEN m.pos ELSE i + 1)

findall(r, ngroups, s) == FindallFrom(r, ngroups, s, 0)

\* the patterns of _fallback_extraction
ReWord == RePlus(ReSet(WordChars, FALSE))

ReSpaces == RePlus(ReSet(Whitespace, FALSE))

ReOptSpaces == ReStar(ReSet(Whitespace, FALSE))

\* q([^q\\]|\\.)*q for the quote character q
QuotedPattern(q) ==
  ReCat(<< ReChar(q), ReItems(1, q), ReChar(q) >>)

\* the backtick character, which cannot be written in a string of this
\* language: a token that stands for it
Backtick == "<backtick>"

string_patterns ==
  << QuotedPattern("\""), QuotedPattern("'"), QuotedPattern(Backtick) >>

\* #.*
PyCommentPattern == ReCat(<< ReChar("#"), ReStar(ReDot) >>)

\* q(.*?)q with re.DOTALL, for q = three double or three single quotes
TripleQuotedPattern(q) ==
  ReCat(<< ReLit(<<q, q, q>>), ReGroup(1, ReLazyStar(ReAny)),
           ReLit(<<q, q, q>>) >>)

\* //.*
LineCommentPattern == ReCat(<< ReLit(<<"/", "/">>), ReStar(ReDot) >>)

\* /\*(.*?)\*/ with re.DOTALL
BlockCommentPattern ==
  ReCat(<< ReLit(<<"/", "*">>), ReGroup(1, ReLazyStar(ReAny)),
           ReLit(<<"*", "/">>) >>)

\* keyword\s+(\w+)
KeywordNamePattern(keyword) ==
  ReCat(<< ReLit(keyword), ReSpaces, ReGroup(1, ReWord) >>)

\* (public|private|protected)?\s*(static)?\s*\w+\s+(\w+)\s*\(
JavaMethodPattern ==
  ReCat(<< ReOpt(ReGroup(1, ReAlt(<<
               ReLit(<<"p","u","b","l","i","c">>),
               ReLit(<<"p","r","i","v","a","t","e">>),
               ReLit(<<"p","r","o","t","e","c","t","e","d">>) >>))),
           ReOptSpaces,
           ReOpt(ReGroup(2, ReLit(<<"s","t","a","t","i","c">>))),
           ReOptSpaces, ReWord, ReSpaces, ReGroup(3, ReWord), ReOptSpaces,
           ReChar("(") >>)

\* (\w+)\s*=
AssignPattern == ReCat(<< ReGroup(1, ReWord), ReOptSpaces, ReChar("=") >>)

(***************************************************************************)
(* CodeFeatures and the normalisation step of extract_features.            *)
(***************************************************************************)
\* the eight list fields of CodeFeatures
ListFields ==
  {"strings", "function_names", "variable_names", "comments", "docstrings",
   "class_names", "method_names", "imports"}

\* a variant of the constructor that tags every result "unknown"
CodeFeaturesTaggedUnknown(language, file_path) ==
  [strings |-> << >>, function_names |-> << >>, variable_names |-> << >>,
   comments |-> << >>, docstrings |-> << >>, class_names |-> << >>,
   method_names |-> << >>, imports |-> << >>,
   language |-> "unknown", file_path |-> file_path]

\* CodeFeatures(strings=[], ..., language=language, file_path=file_path);
\* file_path is << >> for None and <<path>> for a path
CodeFeatures(language, file_path) ==
  [strings |-> << >>, function_names |-> << >>, variable_names |-> << >>,
   comments |-> << >>, docstrings |-> << >>, class_names |-> << >>,
   method_names |-> << >>, imports |-> << >>,
   language |-> language, file_path |-> file_path]

\* the entries of a list
Range(xs) == {xs[i] : i \in 1..Len(xs)}

\* xs without the entries that repeat an earlier one
RECURSIVE Dedup(_)
Dedup(xs) ==
  IF xs = << >>
    THEN << >>
    ELSE LET init == Dedup(SubSeq(xs, 1, Len(xs) - 1))
             last == xs[Len(xs)]
         IN  IF last \in Range(init) THEN init ELSE Append(init, last)

Reverse(xs) == [i \in 1..Len(xs) |-> xs[Len(xs) + 1 - i]]

\* the hash seeds a Python process may run with (PYTHONHASHSEED)
HashSeeds == {0, 1}

\* list(set(xs)): the distinct entries of xs, in the iteration order of a
\* set of str, which depends on the hash seed of the process; the two
\* seeds of the model give an order and its reverse
ListOfSet(xs, seed) == IF seed = 0 THEN Dedup(xs) ELSE Reverse(Dedup(xs))

\* [f(x) for x in xs if keep(x)]
Comprehension(xs, f(_), keep(_)) ==
  LET kept == SelectSeq(xs, keep)
  IN  [i \in 1..Len(kept) |-> f(kept[i])]

\* a variant of s.strip('"\'') that removes one quote character at most
\* from each end
StripOneQuote(s) ==
  LET a == IF s # << >> /\ s[1] \in QuoteChars THEN 1 ELSE 0
      b == IF Len(s) > a /\ s[Len(s)] \in QuoteChars THEN 1 ELSE 0
  IN  Slice(s, a, Len(s) - b)

\* s.strip('"\'')
StripQuotes(s) == strip_chars(s, QuoteChars)

\* the minimum-length thresholds of strings, comments and docstrings
MinStringLen == 2

MinCommentLen == 5

MinDocstringLen == 10

KeepString(s) == Len(StripQuotes(s)) > MinStringLen

KeepComment(c) == Len(strip(c)) > MinCommentLen

KeepDocstring(d) == Len(strip(d)) > MinDocstringLen

\* the eight assignments that end extract_features
Normalise(features, seed) ==
  [features EXCEPT
     !.strings = ListOfSet(Comprehension(@, StripQuotes, KeepString), seed),
     !.function_names = ListOfSet(@, seed),
     !.variable_names = ListOfSet(@, seed),
     !.comments = ListOfSet(Comprehension(@, strip, KeepComment), seed),
     !.docstrings = ListOfSet(Comprehension(@, strip, KeepDocstring), seed),
     !.class_names = ListOfSet(@, seed),
     !.method_names = ListOfSet(@, seed),
     !.imports = ListOfSet(@, seed)]

(***************************************************************************)
(* The state: extractor instances, each in a process of its own, and the   *)
(* call they are given.                                                    *)
(***************************************************************************)
Extractors == {1, 2}

VARIABLES
  loadable,   \* per extractor: the languages whose grammar loads
  parsers,    \* per extractor: the keys of self.parsers
  languages,  \* per extractor: the keys of self.languages
  hashseed,   \* per extractor: the hash seed of its process
  input,      \* the call under way: operation and arguments
  result      \* per extractor: how the call ended

vars == <<loadable, parsers, languages, hashseed, input, result>>

(***************************************************************************)
(* _fallback_extraction.                                                   *)
(***************************************************************************)
\* xs.extend(ys) for each ys of a sequence of lists
RECURSIVE ExtendAll(_, _)
ExtendAll(xs, yss) ==
  IF yss = << >> THEN xs ELSE ExtendAll(xs \o Head(yss), Tail(yss))

CLikeCommentLanguages ==
  {"javascript", "typescript", "tsx", "java", "c", "cpp", "go", "rust", "php"}

\* a variant of _fallback_extraction that looks for // and /* */ comments
\* in every language but python
_fallback_extraction_comments_any(self, code, language, file_path) ==
  LET kw_def == <<"d","e","f">>
      kw_class == <<"c","l","a","s","s">>
      kw_function == <<"f","u","n","c","t","i","o","n">>
      strings ==
        ExtendAll(<< >>, [i \in 1..Len(string_patterns) |->
                           findall(string_patterns[i], 1, code)])
      comments ==
        IF language = "python"
          THEN findall(PyCommentPattern, 0, code)
        ELSE findall(LineCommentPattern, 0, code)
               \o findall(BlockCommentPattern, 1, code)
      docstrings ==
        IF language = "python"
          THEN findall(TripleQuotedPattern("\""), 1, code)
                 \o findall(TripleQuotedPattern("'"), 1, code)
          ELSE << >>
      function_names ==
        IF language = "python"
          THEN findall(KeywordNamePattern(kw_def), 1, code)
        ELSE IF language \in {"javascript", "typescript", "tsx"}
          THEN findall(KeywordNamePattern(kw_function), 1, code)
        ELSE << >>
      class_names ==
        IF language \in {"python", "javascript", "typescript", "tsx", "java"}
          THEN findall(KeywordNamePattern(kw_class), 1, code)
          ELSE << >>
      method_names ==
        IF language = "java"
          THEN findall(JavaMethodPattern, 3, code)
          ELSE << >>
      variable_names ==
        IF language = "python"
          THEN findall(AssignPattern, 1, code)
          ELSE << >>
  IN  [CodeFeatures(language, file_path) EXCEPT
         !.strings = strings,
         !.comments = comments,
         !.docstrings = docstrings,
         !.function_names = function_names,
         !.class_names = class_names,
         !.method_names = method_names,
         !.variable_names = variable_names]

_fallback_extraction(self, code, language, file_path) ==
  LET kw_def == <<"d","e","f">>
      kw_class == <<"c","l","a","s","s">>
      kw_function == <<"f","u","n","c","t","i","o","n">>
      strings ==
        ExtendAll(<< >>, [i \in 1..Len(string_patterns) |->
                           findall(string_patterns[i], 1, code)])
      comments ==
        IF language = "python"
          THEN findall(PyCommentPattern, 0, code)
        ELSE IF language \in CLikeCommentLanguages
          THEN findall(LineCommentPattern, 0, code)
                 \o findall(BlockCommentPattern, 1, code)
        ELSE << >>
      docstrings ==
        IF language = "python"
          THEN findall(TripleQuotedPattern("\""), 1, code)
                 \o findall(TripleQuotedPattern("'"), 1, code)
          ELSE << >>
      function_names ==
        IF language = "python"
          THEN findall(KeywordNamePattern(kw_def), 1, code)
        ELSE IF language \in {"javascript", "typescript", "tsx"}
          THEN findall(KeywordNamePattern(kw_function), 1, code)
        ELSE << >>
      class_names ==
        IF language \in {"python", "javascript", "typescript", "tsx", "java"}
          THEN findall(KeywordNamePattern(kw_class), 1, code)
          ELSE << >>
      method_names ==
        IF language = "java"
          THEN findall(JavaMethodPattern, 3, code)
          ELSE << >>
      variable_names ==
        IF language = "python"
          THEN findall(AssignPattern, 1, code)
          ELSE << >>
  IN  [CodeFeatures(language, file_path) EXCEPT
         !.strings = strings,
         !.comments = comments,
         !.docstrings = docstrings,
         !.function_names = function_names,
         !.class_names = class_names,
         !.method_names = method_names,
         !.variable_names = variable_names]

(***************************************************************************)
(* Syntax trees (tree_sitter.Node).  A tree is a sequence of nodes, the    *)
(* root first; a node refers to its parent and children by index, 0 for    *)
(* None.  fields maps the field names of the node to a child.              *)
(***************************************************************************)
Node(type, start, end, parent, children, fields) ==
  [type |-> type, start |-> start, end |-> end, parent |-> parent,
   children |-> children, fields |-> fields]

\* a node without field names
NoFields == [f \in {} |-> 0]

\* a node without children or fields
Leaf(type, start, end, parent) ==
  Node(type, start, end, parent, << >>, NoFields)

\* node.child_by_field_name(field), 0 for None
child_by_field_name(tree, n, field) ==
  IF field \in DOMAIN tree[n].fields THEN tree[n].fields[field] ELSE 0

\* node.next_sibling, 0 for None
next_sibling(tree, n) ==
  LET p == tree[n].parent
  IN  IF p = 0
        THEN 0
        ELSE LET sibs == tree[p].children
                 k == CHOOSE i \in 1..Len(sibs) : sibs[i] = n
             IN  IF k < Len(sibs) THEN sibs[k + 1] ELSE 0

\* code_bytes[node.start_byte:node.end_byte].decode("utf8")
node_text(tree, n, code) == Slice(code, tree[n].start, tree[n].end)

\* features.<field>.append(item)
Add(features, field, item) == [features EXCEPT ![field] = Append(@, item)]

\* features.<field>.append(text of node n) for each n of nodes, in order
RECURSIVE AddTexts(_, _, _, _, _)
AddTexts(features, field, tree, nodes, code) ==
  IF nodes = << >>
    THEN features
    ELSE AddTexts(Add(features, field, node_text(tree, Head(nodes), code)),
                  field, tree, Tail(nodes), code)

\* a variant of the capture without the test of name_node: the text of a
\* missing child is taken to be ''
AddNamedChildUnguarded(features, field, tree, n, f, code) ==
  LET name_node == child_by_field_name(tree, n, f)
  IN  Add(features, field,
          IF name_node # 0 THEN node_text(tree, name_node, code) ELSE EmptyText)

\* the capture "name_node = node.child_by_field_name(f); if name_node:
\* features.<field>.append(text of name_node)"
AddNamedChild(features, field, tree, n, f, code) ==
  LET name_node == child_by_field_name(tree, n, f)
  IN  IF name_node # 0
        THEN Add(features, field, node_text(tree, name_node, code))
        ELSE features

\* the same capture, taken only when the child has the expected type
AddTypedChild(features, field, tree, n, f, type, code) ==
  LET target == child_by_field_name(tree, n, f)
  IN  IF target # 0 /\ tree[target].type = type
        THEN Add(features, field, node_text(tree, target, code))
        ELSE features

\* content[3:-2].strip() of a /** ... */ block
JavadocBody(content) == strip(Slice(content, 3, Len(content) - 2))

\* a variant of the /** ... */ test that accepts any comment
IsJavadocLoose(content) == startswith(content, <<"/">>)

IsJavadoc(content) ==
  startswith(content, <<"/","*","*">>) /\ endswith(content, <<"*","/">>)

\* "for prefix, suffix in pairs: if content.startswith(prefix): ...; break":
\* the first pair whose prefix matches removes its prefix, and its suffix
\* when the suffix is not '' and matches
RECURSIVE StripDocMarkers(_, _)
StripDocMarkers(content, pairs) ==
  IF pairs = << >>
    THEN content
    ELSE LET prefix == Head(pairs)[1]
             suffix == Head(pairs)[2]
         IN  IF startswith(content, prefix)
               THEN IF suffix # << >> /\ endswith(content, suffix)
                      THEN Slice(content, Len(prefix),
                                 Len(content) - Len(suffix))
                      ELSE Slice(content, Len(prefix), Len(content))
               ELSE StripDocMarkers(content, Tail(pairs))

\* the docstring append that is guarded by len(docstring_content) > 10
AddLongDocstring(features, content) ==
  IF Len(content) > MinDocstringLen
    THEN Add(features, "docstrings", content)
    ELSE features

(***************************************************************************)
(* traverse() of _extract_python_features: the work on one node.           *)
(***************************************************************************)
\* the first child of a block that is not layout
FirstStatement(tree, block) ==
  LET stmts == SelectSeq(tree[block].children,
                 LAMBDA c : tree[c].type \notin {"newline", "indent", "dedent", ":"})
  IN  IF stmts = << >> THEN 0 ELSE stmts[1]

\* the docstring test of a string node
IsPythonDocstring(tree, n) ==
  LET parent == tree[n].parent
      block == IF parent = 0 THEN 0 ELSE tree[parent].parent
      definition == IF block = 0 THEN 0 ELSE tree[block].parent
  IN  /\ parent # 0
      /\ tree[parent].type = "expression_statement"
      /\ block # 0
      /\ tree[block].type \in {"block", "suite"}
      /\ definition # 0
      /\ tree[definition].type \in {"function_definition", "class_definition"}
      /\ tree[block].children # << >>
      /\ parent = FirstStatement(tree, block)

\* a variant of the quote loop that knows the one-character quotes only
StripDocQuotesSingle(content) ==
  LET quotes == << <<"\"">>, <<"'">> >>
      fits(q) == startswith(content, q) /\ endswith(content, q)
      hits == SelectSeq(quotes, fits)
  IN  IF hits = << >>
        THEN content
        ELSE Slice(content, Len(hits[1]), Len(content) - Len(hits[1]))

\* the quote loop: the first of """, ''', ", ' that both starts and ends the
\* text is removed from both ends
StripDocQuotes(content) ==
  LET quotes == << <<"\"", "\"", "\"">>, <<"'", "'", "'">>, <<"\"">>, <<"'">> >>
      fits(q) == startswith(content, q) /\ endswith(content, q)
      hits == SelectSeq(quotes, fits)
  IN  IF hits = << >>
        THEN content
        ELSE Slice(content, Len(hits[1]), Len(content) - Len(hits[1]))

PythonVisit(tree, n, code, features) ==
  LET node_type == tree[n].type
      text == node_text(tree, n, code)
  IN  CASE node_type = "string" ->
             LET f1 == Add(features, "strings", text)
             IN  IF IsPythonDocstring(tree, n)
                   THEN Add(f1, "docstrings", strip(StripDocQuotes(strip(text))))
                   ELSE f1
        [] node_type = "function_definition" ->
             AddNamedChild(features, "function_names", tree, n, "name", code)
        [] node_type = "class_definition" ->
             AddNamedChild(features, "class_names", tree, n, "name", code)
        [] node_type = "assignment" ->
             AddTypedChild(features, "variable_names", tree, n, "left",
                           "identifier", code)
        [] node_type \in {"import_statement", "import_from_statement"} ->
             Add(features, "imports", text)
        [] node_type = "comment" -> Add(features, "comments", text)
        [] OTHER -> features

(***************************************************************************)
(* traverse() of _extract_js_ts_features: the work on one node.            *)
(***************************************************************************)
JsVisit(tree, n, code, features) ==
  LET node_type == tree[n].type
      text == node_text(tree, n, code)
      parent == tree[n].parent
  IN  CASE node_type \in {"string", "template_string"} ->
             LET f1 == Add(features, "strings", text)
             IN  IF parent # 0 /\ tree[parent].type = "comment"
                      /\ IsJavadoc(strip(text))
                   THEN Add(f1, "docstrings", JavadocBody(strip(text)))
                   ELSE f1
        [] node_type \in {"function_declaration", "function_expression"} ->
             AddNamedChild(features, "function_names", tree, n, "name", code)
        [] node_type = "arrow_function" ->
             IF parent # 0 /\ tree[parent].type = "variable_declarator"
               THEN AddNamedChild(features, "function_names", tree, parent,
                                  "name", code)
               ELSE features
        [] node_type = "class_declaration" ->
             AddNamedChild(features, "class_names", tree, n, "name", code)
        [] node_type = "method_definition" ->
             AddNamedChild(features, "method_names", tree, n, "name", code)
        [] node_type = "variable_declarator" ->
             AddNamedChild(features, "variable_names", tree, n, "name", code)
        [] node_type \in {"import_statement", "import_declaration"} ->
             Add(features, "imports", text)
        [] node_type = "comment" ->
             LET f1 == Add(features, "comments", text)
             IN  IF IsJavadoc(strip(text))
                   THEN AddLongDocstring(f1, JavadocBody(strip(text)))
                   ELSE f1
        [] OTHER -> features

(***************************************************************************)
(* traverse() of the other rule sets: the work on one node.                *)
(***************************************************************************)
JavaVisit(tree, n, code, features) ==
  LET node_type == tree[n].type
      text == node_text(tree, n, code)
  IN  CASE node_type = "string_literal" -> Add(features, "strings", text)
        [] node_type = "method_declaration" ->
             AddNamedChild(features, "method_names", tree, n, "name", code)
        [] node_type = "class_declaration" ->
             AddNamedChild(features, "class_names", tree, n, "name", code)
        [] node_type = "variable_declarator" ->
             AddNamedChild(features, "variable_names", tree, n, "name", code)
        [] node_type = "import_declaration" -> Add(features, "imports", text)
        [] node_type \in {"line_comment", "block_comment"} ->
             LET f1 == Add(features, "comments", text)
             IN  IF node_type = "block_comment" /\ IsJavadoc(strip(text))
                   THEN AddLongDocstring(f1, JavadocBody(strip(text)))
                   ELSE f1
        [] OTHER -> features

\* the two characters that follow /* in the second prefix of the C/C++
\* documentation loop (U+00EF, U+00BC): tokens that stand for them
IDiaeresis == "<U+00EF>"

OneQuarter == "<U+00BC>"

CDocMarkers ==
  << << <<"/","*","*">>, <<"*","/">> >>,
     << <<"/","*",IDiaeresis,OneQuarter>>, <<"*","/">> >>,
     << <<"/","/","/">>, << >> >>,
     << <<"/","/","!">>, << >> >> >>

\* the init_declarator children of a declaration whose declarator is an
\* identifier: the declarators
CDeclaredNames(tree, n) ==
  LET named(c) ==
        /\ tree[c].type = "init_declarator"
        /\ child_by_field_name(tree, c, "declarator") # 0
        /\ tree[child_by_field_name(tree, c, "declarator")].type = "identifier"
      kept == SelectSeq(tree[n].children, named)
  IN  [i \in 1..Len(kept) |-> child_by_field_name(tree, kept[i], "declarator")]

CVisit(tree, n, code, features) ==
  LET node_type == tree[n].type
      text == node_text(tree, n, code)
      stripped == strip(text)
  IN  CASE node_type = "string_literal" -> Add(features, "strings", text)
        [] node_type = "function_definition" ->
             LET declarator == child_by_field_name(tree, n, "declarator")
             IN  IF declarator # 0
                      /\ tree[declarator].type = "function_declarator"
                   THEN AddNamedChild(features, "function_names", tree,
                                      declarator, "declarator", code)
                   ELSE features
        [] node_type \in {"class_specifier", "struct_specifier"} ->
             AddNamedChild(features, "class_names", tree, n, "name", code)
        [] node_type = "declaration" ->
             AddTexts(features, "variable_names", tree,
                      CDeclaredNames(tree, n), code)
        [] node_type \in {"preproc_include", "preproc_import"} ->
             Add(features, "imports", text)
        [] node_type = "comment" ->
             LET f1 == Add(features, "comments", text)
             IN  IF \/ startswith(stripped, <<"/","*","*">>)
                    \/ startswith(stripped, <<"/","/","/">>)
                    \/ startswith(stripped, <<"/","*","!">>)
                   THEN AddLongDocstring(f1,
                          strip(StripDocMarkers(stripped, CDocMarkers)))
                   ELSE f1
        [] OTHER -> features

\* the names of a Go type_declaration: the name of each type_spec child
GoTypeNames(tree, n) ==
  LET named(c) ==
        tree[c].type = "type_spec" /\ child_by_field_name(tree, c, "name") # 0
      kept == SelectSeq(tree[n].children, named)
  IN  [i \in 1..Len(kept) |-> child_by_field_name(tree, kept[i], "name")]

\* the names of a Go variable declaration, over children[k..]: the first
\* identifier of each var_spec or const_spec, every identifier of an
\* expression_list
RECURSIVE GoVarNames(_, _, _)
GoVarNames(tree, children, k) ==
  IF k > Len(children)
    THEN << >>
    ELSE LET c == children[k]
             ids == SelectSeq(tree[c].children,
                              LAMBDA g : tree[g].type = "identifier")
         IN  (IF tree[c].type \in {"var_spec", "const_spec"}
                THEN IF ids = << >> THEN << >> ELSE << ids[1] >>
                ELSE IF tree[c].type = "expression_list" THEN ids ELSE << >>)
               \o GoVarNames(tree, children, k + 1)

GoVisit(tree, n, code, features) ==
  LET node_type == tree[n].type
      text == node_text(tree, n, code)
      stripped == strip(text)
      sibling == next_sibling(tree, n)
  IN  CASE node_type \in {"interpreted_string_literal", "raw_string_literal"} ->
             Add(features, "strings", text)
        [] node_type = "function_declaration" ->
             AddNamedChild(features, "function_names", tree, n, "name", code)
        [] node_type = "method_declaration" ->
             AddNamedChild(features, "method_names", tree, n, "name", code)
        [] node_type = "type_declaration" ->
             AddTexts(features, "class_names", tree, GoTypeNames(tree, n), code)
        [] node_type \in {"var_declaration", "short_var_declaration",
                          "const_declaration"} ->
             AddTexts(features, "variable_names", tree,
                      GoVarNames(tree, tree[n].children, 1), code)
        [] node_type = "import_declaration" -> Add(features, "imports", text)
        [] node_type = "comment" ->
             LET f1 == Add(features, "comments", text)
             IN  IF /\ startswith(stripped, <<"/","/">>)
                    /\ sibling # 0
                    /\ tree[sibling].type \in
                         {"function_declaration", "type_declaration",
                          "method_declaration"}
                   THEN AddLongDocstring(f1,
                          strip(Slice(stripped, 2, Len(stripped))))
                   ELSE f1
        [] OTHER -> features

RustDocMarkers ==
  << << <<"/","/","/">>, << >> >>,
     << <<"/","/","!">>, << >> >>,
     << <<"/","*","*">>, <<"*","/">> >>,
     << <<"/","*","!">>, <<"*","/">> >> >>

RustVisit(tree, n, code, features) ==
  LET node_type == tree[n].type
      text == node_text(tree, n, code)
      stripped == strip(text)
  IN  CASE node_type = "string_literal" -> Add(features, "strings", text)
        [] node_type = "function_item" ->
             AddNamedChild(features, "function_names", tree, n, "name", code)
        [] node_type \in {"struct_item", "enum_item", "trait_item", "impl_item"} ->
             AddNamedChild(features, "class_names", tree, n, "name", code)
        [] node_type = "let_declaration" ->
             AddTypedChild(features, "variable_names", tree, n, "pattern",
                           "identifier", code)
        [] node_type \in {"use_declaration", "extern_crate_declaration"} ->
             Add(features, "imports", text)
        [] node_type \in {"line_comment", "block_comment"} ->
             LET f1 == Add(features, "comments", text)
             IN  IF \E i \in 1..Len(RustDocMarkers) :
                      startswith(stripped, RustDocMarkers[i][1])
                   THEN AddLongDocstring(f1,
                          strip(StripDocMarkers(stripped, RustDocMarkers)))
                   ELSE f1
        [] OTHER -> features

RubyVisit(tree, n, code, features) ==
  LET node_type == tree[n].type
      text == node_text(tree, n, code)
      stripped == strip(text)
      sibling == next_sibling(tree, n)
  IN  CASE node_type = "string" -> Add(features, "strings", text)
        [] node_type = "method" ->
             AddNamedChild(features, "method_names", tree, n, "name", code)
        [] node_type \in {"class", "module"} ->
             AddNamedChild(features, "class_names", tree, n, "name", code)
        [] node_type = "assignment" ->
             AddTypedChild(features, "variable_names", tree, n, "left",
                           "identifier", code)
        [] node_type \in {"require", "load", "require_relative"} ->
             Add(features, "imports", text)
        [] node_type = "comment" ->
             LET f1 == Add(features, "comments", text)
             IN  IF /\ startswith(stripped, <<"#">>)
                    /\ sibling # 0
                    /\ tree[sibling].type \in {"method", "class", "module"}
                   THEN AddLongDocstring(f1,
                          strip(Slice(stripped, 1, Len(stripped))))
                   ELSE f1
        [] OTHER -> features

\* sub in s, for texts
Contains(s, sub) ==
  \E i \in 0..(Len(s) - Len(sub)) : Slice(s, i, i + Len(sub)) = sub

PhpDocMarkers ==
  { <<"@","p","a","r","a","m">>, <<"@","r","e","t","u","r","n">>,
    <<"@","t","h","r","o","w","s">>, <<"@","v","a","r">>,
    <<"@","a","u","t","h","o","r">> }

PhpVisit(tree, n, code, features) ==
  LET node_type == tree[n].type
      text == node_text(tree, n, code)
      stripped == strip(text)
      content == strip(Slice(stripped, 2, Len(stripped) - 2))
  IN  CASE node_type = "string" -> Add(features, "strings", text)
        [] node_type = "function_definition" ->
             AddNamedChild(features, "function_names", tree, n, "name", code)
        [] node_type = "method_declaration" ->
             AddNamedChild(features, "method_names", tree, n, "name", code)
        [] node_type \in {"class_declaration", "interface_declaration",
                          "trait_declaration"} ->
             AddNamedChild(features, "class_names", tree, n, "name", code)
        [] node_type = "assignment_expression" ->
             AddTypedChild(features, "variable_names", tree, n, "left",
                           "variable_name", code)
        [] node_type \in {"include_expression", "require_expression",
                          "include_once_expression",
                          "require_once_expression"} ->
             Add(features, "imports", text)
        [] node_type = "comment" ->
             LET f1 == Add(features, "comments", text)
             IN  IF IsJavadoc(stripped)
                   THEN AddLongDocstring(f1, JavadocBody(stripped))
                 ELSE IF /\ startswith(stripped, <<"/","*">>)
                         /\ endswith(stripped, <<"*","/">>)
                         /\ \E marker \in PhpDocMarkers : Contains(content, marker)
                   THEN Add(f1, "docstrings", content)
                 ELSE f1
        [] OTHER -> features

\* the node types of the model whose name contains 'string', and those
\* whose name contains 'comment' (node types are not texts in this model)
StringLikeTypes ==
  {"string", "template_string", "string_literal", "string_content",
   "string_start", "string_end", "interpreted_string_literal",
   "raw_string_literal", "string_fragment"}

CommentLikeTypes == {"comment", "line_comment", "block_comment"}

GenericVisit(tree, n, code, features) ==
  LET node_type == tree[n].type
      text == node_text(tree, n, code)
  IN  IF node_type \in StringLikeTypes THEN Add(features, "strings", text)
      ELSE IF node_type \in CommentLikeTypes THEN Add(features, "comments", text)
      ELSE IF node_type = "identifier" /\ Len(text) > 1 /\ Len(text) > 3
        THEN Add(features, "variable_names", text)
      ELSE features

\* a variant of the dispatch without the branch for php
RuleSetOfWithoutPhp(language) ==
  IF language = "python" THEN "python"
  ELSE IF language \in {"javascript", "typescript", "tsx"} THEN "js_ts"
  ELSE IF language = "java" THEN "java"
  ELSE IF language \in {"c", "cpp"} THEN "c_cpp"
  ELSE IF language = "go" THEN "go"
  ELSE IF language = "rust" THEN "rust"
  ELSE IF language = "ruby" THEN "ruby"
  ELSE "generic"

(***************************************************************************)
(* The traversal: the node, then its children in order.                    *)
(***************************************************************************)
\* the rule set extract_features selects for a registered language
RuleSetOf(language) ==
  IF language = "python" THEN "python"
  ELSE IF language \in {"javascript", "typescript", "tsx"} THEN "js_ts"
  ELSE IF language = "java" THEN "java"
  ELSE IF language \in {"c", "cpp"} THEN "c_cpp"
  ELSE IF language = "go" THEN "go"
  ELSE IF language = "rust" THEN "rust"
  ELSE IF language = "ruby" THEN "ruby"
  ELSE IF language = "php" THEN "php"
  ELSE "generic"

Visit(rules, tree, n, code, features) ==
  CASE rules = "python" -> PythonVisit(tree, n, code, features)
    [] rules = "js_ts" -> JsVisit(tree, n, code, features)
    [] rules = "java" -> JavaVisit(tree, n, code, features)
    [] rules = "c_cpp" -> CVisit(tree, n, code, features)
    [] rules = "go" -> GoVisit(tree, n, code, features)
    [] rules = "rust" -> RustVisit(tree, n, code, features)
    [] rules = "ruby" -> RubyVisit(tree, n, code, features)
    [] rules = "php" -> PhpVisit(tree, n, code, features)
    [] rules = "generic" -> GenericVisit(tree, n, code, features)

RECURSIVE traverse(_, _, _, _, _)
RECURSIVE TraverseChildren(_, _, _, _, _, _)

\* "for child in node.children: traverse(child)", from child number k
TraverseChildren(rules, tree, children, k, code, features) ==
  IF k > Len(children)
    THEN features
    ELSE TraverseChildren(rules, tree, children, k + 1, code,
                          traverse(rules, tree, children[k], code, features))

traverse(rules, tree, n, code, features) ==
  TraverseChildren(rules, tree, tree[n].children, 1, code,
                   Visit(rules, tree, n, code, features))

(***************************************************************************)
(* Sample sources and the syntax trees the grammars give for them.         *)
(***************************************************************************)
PyAddSource ==
  <<"d","e","f"," ","a","d","d","(","a",","," ","b",")",":","\n"," ",
    " "," "," ","\"","\"","\"","A","d","d","s"," ","t","w","o"," ","n",
    "u","m","b","e","r","s",".","\"","\"","\"","\n"," "," "," "," ","r",
    "e","t","u","r","n"," ","a"," ","+"," ","b","\n">>

PyAddTree ==
  << Node("module", 0, 60, 0, <<2>>, NoFields),
     Node("function_definition", 0, 59, 1, <<3, 4, 5, 11, 12>>, [name |-> 4, parameters |-> 5, body |-> 12]),
     Leaf("def", 0, 3, 2),
     Leaf("identifier", 4, 7, 2),
     Node("parameters", 7, 13, 2, <<6, 7, 8, 9, 10>>, NoFields),
     Leaf("(", 7, 8, 5),
     Leaf("identifier", 8, 9, 5),
     Leaf(",", 9, 10, 5),
     Leaf("identifier", 11, 12, 5),
     Leaf(")", 12, 13, 5),
     Leaf(":", 13, 14, 2),
     Node("block", 19, 59, 2, <<13, 18>>, NoFields),
     Node("expression_statement", 19, 42, 12, <<14>>, NoFields),
     Node("string", 19, 42, 13, <<15, 16, 17>>, NoFields),
     Leaf("string_start", 19, 22, 14),
     Leaf("string_content", 22, 39, 14),
     Leaf("string_end", 39, 42, 14),
     Node("return_statement", 47, 59, 12, <<19, 20>>, NoFields),
     Leaf("return", 47, 53, 18),
     Node("binary_operator", 54, 59, 18, <<21, 22, 23>>, [left |-> 21, right |-> 23]),
     Leaf("identifier", 54, 55, 20),
     Leaf("+", 56, 57, 20),
     Leaf("identifier", 58, 59, 20) >>

JsFooSource ==
  <<"/","/"," ","r","e","g","u","l","a","r"," ","c","o","m","m","e","n",
    "t","\n","f","u","n","c","t","i","o","n"," ","f","o","o","(",")",
    "{","}">>

JsFooTree ==
  << Node("program", 0, 35, 0, <<2, 3>>, NoFields),
     Leaf("comment", 0, 18, 1),
     Node("function_declaration", 19, 35, 1, <<4, 5, 6, 9>>, [name |-> 5, parameters |-> 6, body |-> 9]),
     Leaf("function", 19, 27, 3),
     Leaf("identifier", 28, 31, 3),
     Node("formal_parameters", 31, 33, 3, <<7, 8>>, NoFields),
     Leaf("(", 31, 32, 6),
     Leaf(")", 32, 33, 6),
     Node("statement_block", 33, 35, 3, <<10, 11>>, NoFields),
     Leaf("{", 33, 34, 9),
     Leaf("}", 34, 35, 9) >>

PyDupSource ==
  <<"n"," ","="," ","'","h","e","l","l","o","'","\n","n"," ","="," ",
    "\"","h","e","l","l","o","\"","\n","k"," ","="," ","\"","a","b",
    "\"","\n","#"," ","h","i","\n","#"," ","a"," ","n","o","t","e"," ",
    "\n">>

PyDupTree ==
  << Node("module", 0, 48, 0, <<2, 10, 18, 26, 27>>, NoFields),
     Node("expression_statement", 0, 11, 1, <<3>>, NoFields),
     Node("assignment", 0, 11, 2, <<4, 5, 6>>, [left |-> 4, right |-> 6]),
     Leaf("identifier", 0, 1, 3),
     Leaf("=", 2, 3, 3),
     Node("string", 4, 11, 3, <<7, 8, 9>>, NoFields),
     Leaf("string_start", 4, 5, 6),
     Leaf("string_content", 5, 10, 6),
     Leaf("string_end", 10, 11, 6),
     Node("expression_statement", 12, 23, 1, <<11>>, NoFields),
     Node("assignment", 12, 23, 10, <<12, 13, 14>>, [left |-> 12, right |-> 14]),
     Leaf("identifier", 12, 13, 11),
     Leaf("=", 14, 15, 11),
     Node("string", 16, 23, 11, <<15, 16, 17>>, NoFields),
     Leaf("string_start", 16, 17, 14),
     Leaf("string_content", 17, 22, 14),
     Leaf("string_end", 22, 23, 14),
     Node("expression_statement", 24, 32, 1, <<19>>, NoFields),
     Node("assignment", 24, 32, 18, <<20, 21, 22>>, [left |-> 20, right |-> 22]),
     Leaf("identifier", 24, 25, 19),
     Leaf("=", 26, 27, 19),
     Node("string", 28, 32, 19, <<23, 24, 25>>, NoFields),
     Leaf("string_start", 28, 29, 22),
     Leaf("string_content", 29, 31, 22),
     Leaf("string_end", 31, 32, 22),
     Leaf("comment", 33, 37, 1),
     Leaf("comment", 38, 46, 1) >>

PyDeepSource ==
  <<"[","[","[","[","[","[","[","[","]","]","]","]","]","]","]","]">>

PyDeepTree ==
  << Node("module", 0, 16, 0, <<2>>, NoFields),
     Node("expression_statement", 0, 16, 1, <<3>>, NoFields),
     Node("list", 0, 16, 2, <<4, 5, 26>>, NoFields),
     Leaf("[", 0, 1, 3),
     Node("list", 1, 15, 3, <<6, 7, 25>>, NoFields),
     Leaf("[", 1, 2, 5),
     Node("list", 2, 14, 5, <<8, 9, 24>>, NoFields),
     Leaf("[", 2, 3, 7),
     Node("list", 3, 13, 7, <<10, 11, 23>>, NoFields),
     Leaf("[", 3, 4, 9),
     Node("list", 4, 12, 9, <<12, 13, 22>>, NoFields),
     Leaf("[", 4, 5, 11),
     Node("list", 5, 11, 11, <<14, 15, 21>>, NoFields),
     Leaf("[", 5, 6, 13),
     Node("list", 6, 10, 13, <<16, 17, 20>>, NoFields),
     Leaf("[", 6, 7, 15),
     Node("list", 7, 9, 15, <<18, 19>>, NoFields),
     Leaf("[", 7, 8, 17),
     Leaf("]", 8, 9, 17),
     Leaf("]", 9, 10, 15),
     Leaf("]", 10, 11, 13),
     Leaf("]", 11, 12, 11),
     Leaf("]", 12, 13, 9),
     Leaf("]", 13, 14, 7),
     Leaf("]", 14, 15, 5),
     Leaf("]", 15, 16, 3) >>

\* a function expression without a name, around a string
JsAnonSource ==
  <<"(","f","u","n","c","t","i","o","n","(",")","{","\"","a","b","c",
    "d","\"","}",")">>

JsAnonTree ==
  << Node("program", 0, 20, 0, <<2>>, NoFields),
     Node("expression_statement", 0, 20, 1, <<3>>, NoFields),
     Node("parenthesized_expression", 0, 20, 2, <<4, 5, 18>>, NoFields),
     Leaf("(", 0, 1, 3),
     Node("function_expression", 1, 19, 3, <<6, 7, 10>>, [parameters |-> 7, body |-> 10]),
     Leaf("function", 1, 9, 5),
     Node("formal_parameters", 9, 11, 5, <<8, 9>>, NoFields),
     Leaf("(", 9, 10, 7),
     Leaf(")", 10, 11, 7),
     Node("statement_block", 11, 19, 5, <<11, 12, 17>>, NoFields),
     Leaf("{", 11, 12, 10),
     Node("expression_statement", 12, 18, 10, <<13>>, NoFields),
     Node("string", 12, 18, 12, <<14, 15, 16>>, NoFields),
     Leaf("\"", 12, 13, 13),
     Leaf("string_fragment", 13, 17, 13),
     Leaf("\"", 17, 18, 13),
     Leaf("}", 18, 19, 10),
     Leaf(")", 19, 20, 3) >>

\* an assignment whose target is an attribute, not an identifier
PyAttrSource ==
  <<"a",".","b"," ","="," ","\"","a","b","c","d","\"","\n">>

PyAttrTree ==
  << Node("module", 0, 13, 0, <<2>>, NoFields),
     Node("expression_statement", 0, 12, 1, <<3>>, NoFields),
     Node("assignment", 0, 12, 2, <<4, 8, 9>>, [left |-> 4, right |-> 9]),
     Node("attribute", 0, 3, 3, <<5, 6, 7>>, [object |-> 5, attribute |-> 7]),
     Leaf("identifier", 0, 1, 4),
     Leaf(".", 1, 2, 4),
     Leaf("identifier", 2, 3, 4),
     Leaf("=", 4, 5, 3),
     Node("string", 6, 12, 3, <<10, 11, 12>>, NoFields),
     Leaf("string_start", 6, 7, 9),
     Leaf("string_content", 7, 11, 9),
     Leaf("string_end", 11, 12, 9) >>

\* strings as the first statement of a function body (with a prefix) and
\* as a later statement of the body
PyDocSource ==
  <<"d","e","f"," ","f","(",")",":","\n"," ","r","\"","\"","\"","R","a",
    "w"," ","d","o","c","s",".","\"","\"","\"","\n"," ","\"","l","\"",
    "\n">>

PyDocTree ==
  << Node("module", 0, 32, 0, <<2>>, NoFields),
     Node("function_definition", 0, 31, 1, <<3, 4, 5, 8, 9>>, [name |-> 4, parameters |-> 5, body |-> 9]),
     Leaf("def", 0, 3, 2),
     Leaf("identifier", 4, 5, 2),
     Node("parameters", 5, 7, 2, <<6, 7>>, NoFields),
     Leaf("(", 5, 6, 5),
     Leaf(")", 6, 7, 5),
     Leaf(":", 7, 8, 2),
     Node("block", 10, 31, 2, <<10, 15>>, NoFields),
     Node("expression_statement", 10, 26, 9, <<11>>, NoFields),
     Node("string", 10, 26, 10, <<12, 13, 14>>, NoFields),
     Leaf("string_start", 10, 14, 11),
     Leaf("string_content", 14, 23, 11),
     Leaf("string_end", 23, 26, 11),
     Node("expression_statement", 28, 31, 9, <<16>>, NoFields),
     Node("string", 28, 31, 15, <<17, 18, 19>>, NoFields),
     Leaf("string_start", 28, 29, 16),
     Leaf("string_content", 29, 30, 16),
     Leaf("string_end", 30, 31, 16) >>

\* a Java method that returns a string with an escaped quote
JavaMethodSource ==
  <<"S","t","r","i","n","g"," ","f","(",")","{","r","e","t","u","r","n",
    " ","\"","a","\\","\"","b","\"",";","}">>

JavaMethodTree ==
  << Node("program", 0, 26, 0, <<2>>, NoFields),
     Node("method_declaration", 0, 26, 1, <<3, 4, 5, 8>>, [type |-> 3, name |-> 4, parameters |-> 5, body |-> 8]),
     Leaf("type_identifier", 0, 6, 2),
     Leaf("identifier", 7, 8, 2),
     Node("formal_parameters", 8, 10, 2, <<6, 7>>, NoFields),
     Leaf("(", 8, 9, 5),
     Leaf(")", 9, 10, 5),
     Node("block", 10, 26, 2, <<9, 10, 19>>, NoFields),
     Leaf("{", 10, 11, 8),
     Node("return_statement", 11, 25, 8, <<11, 12, 18>>, NoFields),
     Leaf("return", 11, 17, 10),
     Node("string_literal", 18, 24, 10, <<13, 14, 15, 16, 17>>, NoFields),
     Leaf("\"", 18, 19, 12),
     Leaf("string_fragment", 19, 20, 12),
     Leaf("escape_sequence", 20, 22, 12),
     Leaf("string_fragment", 22, 23, 12),
     Leaf("\"", 23, 24, 12),
     Leaf(";", 24, 25, 10),
     Leaf("}", 25, 26, 8) >>

(***************************************************************************)
(* The calls of the model: arguments and what the parser returns.          *)
(***************************************************************************)
\* the characters of the generated source texts
CodeAlphabet == {"\"", "#", "a", "\n"}

GeneratedCodes == TextsUpTo(CodeAlphabet, MaxCodeLen)

SampleCodes ==
  {EmptyText, PyAddSource, JsFooSource, PyDupSource, PyDeepSource}

\* the characters of the generated file paths
PathAlphabet == {".", "/", "p", "y", "P"}

SamplePaths ==
  { <<"m","a","i","n",".","p","y">>, <<"a",".","j","s">>,
    <<"a",".","j","s","x">>, <<"a",".","t","s">>, <<"a",".","t","s","x">>,
    <<"A",".","j","a","v","a">>, <<"a",".","c","p","p">>,
    <<"a",".","c","x","x">>, <<"a",".","c","c">>, <<"a",".","c">>,
    <<"a",".","h">>, <<"a",".","h","p","p">>, <<"a",".","g","o">>,
    <<"a",".","r","s">>, <<"a",".","r","b">>, <<"a",".","p","h","p">>,
    <<"n","o","t","e","s",".","x","y","z">>, <<"M","a","k","e","f","i","l","e">>,
    <<"s","r","c",".","d","/","R","E","A","D","M","E">>,
    <<"a",".","t","a","r",".","R","S">>, <<".","p","h","p">>,
    <<"s","r","c","/","a",".","g","o","/">> }

DetectPaths == SamplePaths \cup TextsUpTo(PathAlphabet, MaxPathLen)

\* the paths a host passes on to extract_features with the language it
\* detected for them
HostPaths ==
  { <<"m","a","i","n",".","p","y">>, <<"a",".","t","s","x">>,
    <<"n","o","t","e","s",".","x","y","z">>, <<"M","a","k","e","f","i","l","e">> }

\* the language arguments: the registry's languages, a language no grammar
\* or fallback rule knows, and the 'unsupported' result of detect_language
LanguageArgs == RegistryLanguages \cup {"kotlin", None}

\* the languages the generated source texts are extracted as
GeneratedLanguages == {"python", "javascript", "java", "kotlin", None}

\* the tree of a call that does not parse
NotParsed == << >>

\* the type of the root node of each grammar
RootType(language) ==
  CASE language = "python" -> "module"
    [] language \in {"c", "cpp"} -> "translation_unit"
    [] language \in {"go", "rust"} -> "source_file"
    [] OTHER -> "program"

\* the node types of string literals and of comments in each grammar
StringType(language) ==
  CASE language \in {"java", "c", "cpp", "rust"} -> "string_literal"
    [] language = "go" -> "interpreted_string_literal"
    [] OTHER -> "string"

CommentType(language) ==
  IF language \in {"java", "rust"} THEN "line_comment" ELSE "comment"

\* a tree whose root has one child, a leaf that spans the whole text
FlatTree(language, code, type) ==
  << Node(RootType(language), 0, Len(code), 0, <<2>>, NoFields),
     Leaf(type, 0, Len(code), 1) >>

\* the trees parser.parse may return for a source text: the tree of the
\* grammar for the sample sources, the bare root for the empty text, and
\* for every other text a root over one string, comment or ERROR leaf
TreesFor(language, code) ==
  IF code = EmptyText
    THEN { << Leaf(RootType(language), 0, 0, 0) >> }
  ELSE IF code = PyAddSource /\ language = "python" THEN {PyAddTree}
  ELSE IF code = PyDupSource /\ language = "python" THEN {PyDupTree}
  ELSE IF code = PyDeepSource /\ language = "python" THEN {PyDeepTree}
  ELSE IF code = JsFooSource /\ language \in {"javascript", "typescript", "tsx"}
    THEN {JsFooTree}
  ELSE IF code = JsAnonSource /\ language = "javascript" THEN {JsAnonTree}
  ELSE IF code = PyAttrSource /\ language = "python" THEN {PyAttrTree}
  ELSE IF code = PyDocSource /\ language = "python" THEN {PyDocTree}
  ELSE IF code = JavaMethodSource /\ language = "java" THEN {JavaMethodTree}
  ELSE IF code \in SampleCodes THEN {FlatTree(language, code, "ERROR")}
  ELSE {FlatTree(language, code, t) :
          t \in {StringType(language), CommentType(language), "ERROR"}}

\* what parser.parse returns for a call, for the languages a registry may
\* hold; the other languages are never parsed
ParseOutcomes(language, code) ==
  IF language \in RegistryLanguages
    THEN TreesFor(language, code)
    ELSE {NotParsed}

NoInput == [op |-> "none"]

ExtractInput(code, language, file_path, tree) ==
  [op |-> "extract_features", code |-> code, language |-> language,
   file_path |-> file_path, tree |-> tree]

DetectInput(path) ==
  [op |-> "detect_language", code |-> EmptyText, language |-> None,
   file_path |-> <<path>>, tree |-> NotParsed]

\* (language, file_path) arguments: any language without a path, and a
\* host path with the language detected for it
LanguagePathArgs ==
  {<<l, << >> >> : l \in LanguageArgs}
    \cup {<<detect_language(p), <<p>> >> : p \in HostPaths}

\* sources that are extracted as the language they are written in
RuleSamples ==
  { <<JsAnonSource, "javascript">>, <<PyAttrSource, "python">>,
    <<PyDocSource, "python">>, <<JavaMethodSource, "java">> }

ExtractInputs ==
  UNION { UNION { {ExtractInput(c, lp[1], lp[2], p) :
                     p \in ParseOutcomes(lp[1], c)} :
                  lp \in LanguagePathArgs } : c \in SampleCodes }
    \cup
  UNION { UNION { {ExtractInput(c, l, << >>, p) :
                     p \in ParseOutcomes(l, c)} :
                  l \in GeneratedLanguages } : c \in GeneratedCodes }
    \cup
  UNION { {ExtractInput(s[1], s[2], << >>, p) : p \in ParseOutcomes(s[2], s[1])} :
          s \in RuleSamples }

DetectInputs == {DetectInput(p) : p \in DetectPaths}

(***************************************************************************)
(* extract_features and the actions.                                       *)
(***************************************************************************)
NoResult == [status |-> "none"]

\* extract_features returned a CodeFeatures
Returned(value) == [status |-> "returned", value |-> value]

\* detect_language returned a language, or None
ReturnedLanguage(language) == [status |-> "returned", language |-> language]

\* the call raised an exception
Raised(exception) == [status |-> "raised", exception |-> exception]

\* the number of nodes on the longest path from node n down to a leaf
RECURSIVE Height(_, _)
Height(tree, n) ==
  LET hs == {Height(tree, tree[n].children[k]) : k \in 1..Len(tree[n].children)}
  IN  1 + (IF hs = {} THEN 0 ELSE CHOOSE h \in hs : \A g \in hs : g <= h)

\* a variant of extract_features that runs the normalisation step on the
\* result of the fallback extraction too
extract_features_normalise_all(self, code, language, file_path, tree) ==
  IF language \notin parsers[self]
    THEN Returned(Normalise(_fallback_extraction(self, code, language, file_path),
                            hashseed[self]))
  ELSE IF Height(tree, 1) > RecursionLimit
    THEN Raised("RecursionError")
  ELSE Returned(Normalise(traverse(RuleSetOf(language), tree, 1, code,
                                   CodeFeatures(language, file_path)),
                          hashseed[self]))

\* extract_features(code, language, file_path) on extractor self, when
\* parser.parse returns tree.  traverse() calls itself once per level of
\* the tree and has no depth guard: on a tree deeper than the interpreter
\* allows, the RecursionError it ends with leaves extract_features, which
\* catches nothing.
extract_features(self, code, language, file_path, tree) ==
  IF language \notin parsers[self]
    THEN Returned(_fallback_extraction(self, code, language, file_path))
  ELSE IF Height(tree, 1) > RecursionLimit
    THEN Raised("RecursionError")
  ELSE Returned(Normalise(traverse(RuleSetOf(language), tree, 1, code,
                                   CodeFeatures(language, file_path)),
                          hashseed[self]))

\* the sets of grammars that load in a process
AllGrammars == RegistryLanguages

GrammarSets == {AllGrammars, {}, {"python", "typescript"}}

Init ==
  /\ loadable \in [Extractors -> GrammarSets]
  /\ parsers = [e \in Extractors |-> _init_languages({}, loadable[e])]
  /\ languages = [e \in Extractors |-> _init_languages({}, loadable[e])]
  /\ hashseed \in [Extractors -> HashSeeds]
  /\ input = NoInput
  /\ result = [e \in Extractors |-> NoResult]

\* the call extractor e may take up: any call when none is under way, else
\* the call under way (the same arguments are given to both extractors)
Pending(e, inputs) ==
  IF result[e] # NoResult THEN {}
  ELSE IF input = NoInput THEN inputs
  ELSE IF input.op = "none" THEN {} ELSE {input}

\* a call of detect_language on extractor e
DetectLanguage(e) ==
  \E in \in Pending(e, DetectInputs) :
    /\ in.op = "detect_language"
    /\ input' = in
    /\ result' = [result EXCEPT ![e] = 
                    ReturnedLanguage(detect_language(in.file_path[1]))]
    /\ UNCHANGED <<loadable, parsers, languages, hashseed>>

\* a call of extract_features on extractor e
ExtractFeatures(e) ==
  \E in \in Pending(e, ExtractInputs) :
    /\ in.op = "extract_features"
    /\ input' = in
    /\ result' = [result EXCEPT ![e] =
                    extract_features(e, in.code, in.language, in.file_path,
                                     in.tree)]
    /\ UNCHANGED <<loadable, parsers, languages, hashseed>>

Next ==
  \/ \E e \in Extractors : DetectLanguage(e)
  \/ \E e \in Extractors : ExtractFeatures(e)

Spec == Init /\ [][Next]_vars

(***************************************************************************)
(* Properties.                                                             *)
(***************************************************************************)
\* extractor e has ended a call of extract_features
Extracted(e) == input.op = "extract_features" /\ result[e] # NoResult

\* extractor e has ended a call of extract_features by returning
ExtractReturned(e) == Extracted(e) /\ result[e].status = "returned"

\* the call of extractor e went through the fallback path
ViaFallback(e) == input.language \notin parsers[e]

\* no two entries of xs are equal
NoDuplicates(xs) ==
  \A i \in 1..Len(xs) : \A j \in 1..Len(xs) : xs[i] = xs[j] => i = j

\* C1: extract_features always returns a CodeFeatures and never raises,
\* whatever the language argument is and whatever tree the parser returns.
C1_ExtractNeverRaises ==
  \A e \in Extractors : Extracted(e) => result[e].status = "returned"

\* C2: in every CodeFeatures extract_features returns, on the grammar path
\* and on the fallback path, every entry of strings is longer than 2,
\* every entry of comments longer than 5 and every entry of docstrings
\* longer than 10.
C2_MinLengths ==
  \A e \in Extractors :
    ExtractReturned(e) =>
      LET f == result[e].value
      IN  /\ \A i \in 1..Len(f.strings) : Len(f.strings[i]) > 2
          /\ \A i \in 1..Len(f.comments) : Len(f.comments[i]) > 5
          /\ \A i \in 1..Len(f.docstrings) : Len(f.docstrings[i]) > 10

\* C3: in every CodeFeatures extract_features returns, on the grammar path
\* and on the fallback path, none of the eight list fields holds two equal
\* entries.
C3_NoDuplicates ==
  \A e \in Extractors :
    ExtractReturned(e) =>
      \A field \in ListFields : NoDuplicates(result[e].value[field])

\* C4: for a path whose extension is not in the extension table,
\* detect_language returns the 'unsupported' result, and extract_features
\* called with that result returns a CodeFeatures whose language is the tag
\* "unknown", its list fields being those of the fallback extraction.
C4_UnsupportedIsUnknown ==
  \A e \in Extractors :
    (/\ Extracted(e)
     /\ input.file_path # << >>
     /\ input.language = detect_language(input.file_path[1])
     /\ lower(PathSuffix(input.file_path[1])) \notin DOMAIN ext_to_lang)
      => /\ input.language = None
         /\ result[e].status = "returned"
         /\ result[e].value.language = "unknown"
         /\ \A field \in ListFields :
              result[e].value[field] =
                _fallback_extraction(e, input.code, None, input.file_path)[field]

(***************************************************************************)
(* The normalisation step on its own: the eight assignments that end       *)
(* extract_features, applied to a CodeFeatures as traverse() may leave it, *)
(* and applied once more to what they produced.                            *)
(***************************************************************************)
\* the longest raw list of a field
MaxEntries == 2

\* raw entries of strings: quoted, quoted twice, too short, unquoted
RawStrings ==
  { <<"\"","a","b","c","\"">>, <<"'","\"","a","b","c","\"","'">>,
    <<"\"","a","b","\"">>, <<"h","e","l","l","o">> }

\* raw entries of comments: padded, too short
RawComments == { <<"#"," ","a"," ","n","o","t","e"," ">>, <<"#"," ","h","i">> }

\* raw entries of docstrings: trimmed and padded
RawDocstrings ==
  { <<"A","d","d","s"," ","t","w","o"," ","n","u","m","b","e","r","s",".">>,
    <<" ","A","d","d","s"," ","t","w","o"," ","n","u","m","b","e","r","s",".","\n">> }

\* raw lists of the five fields that are only deduplicated
RawNames == { << >>, << <<"f">>, <<"g">>, <<"f">> >> }

RawFeatures ==
  { [CodeFeatures("python", << >>) EXCEPT
       !.strings = s, !.comments = c, !.docstrings = d,
       !.function_names = n, !.variable_names = n, !.class_names = n,
       !.method_names = n, !.imports = n] :
      s \in TextsUpTo(RawStrings, MaxEntries),
      c \in TextsUpTo(RawComments, MaxEntries),
      d \in TextsUpTo(RawDocstrings, MaxEntries),
      n \in RawNames }

NormaliseInput(features) == [op |-> "normalise", features |-> features]

NormaliseInit ==
  /\ loadable = [e \in Extractors |-> AllGrammars]
  /\ parsers = [e \in Extractors |-> _init_languages({}, loadable[e])]
  /\ languages = [e \in Extractors |-> _init_languages({}, loadable[e])]
  /\ hashseed \in [Extractors -> HashSeeds]
  /\ input \in {NormaliseInput(f) : f \in RawFeatures}
  /\ result = [e \in Extractors |-> NoResult]

\* the step applied to the raw features, in the process of extractor 1
NormaliseFirst ==
  /\ result[1] = NoResult
  /\ result' = [result EXCEPT
                  ![1] = Returned(Normalise(input.features, hashseed[1]))]
  /\ UNCHANGED <<loadable, parsers, languages, hashseed, input>>

\* the step applied to its own result, in the process of extractor 2
NormaliseAgain ==
  /\ result[1] # NoResult
  /\ result[2] = NoResult
  /\ result' = [result EXCEPT
                  ![2] = Returned(Normalise(result[1].value, hashseed[2]))]
  /\ UNCHANGED <<loadable, parsers, languages, hashseed, input>>

NormaliseNext == NormaliseFirst \/ NormaliseAgain

SpecNormalise == NormaliseInit /\ [][NormaliseNext]_vars

(***************************************************************************)
(* Properties of detect_language.                                          *)
(***************************************************************************)
\* extractor e has ended a call of detect_language
Detected(e) == input.op = "detect_language" /\ result[e] # NoResult

\* the language the extension table gives an extension, None for the others
TableEntry(ext) ==
  CASE ext = <<".","p","y">> -> "python"
    [] ext \in {<<".","j","s">>, <<".","j","s","x">>} -> "javascript"
    [] ext = <<".","t","s">> -> "typescript"
    [] ext = <<".","t","s","x">> -> "tsx"
    [] ext = <<".","j","a","v","a">> -> "java"
    [] ext \in {<<".","c","p","p">>, <<".","c","x","x">>, <<".","c","c">>,
                <<".","h","p","p">>} -> "cpp"
    [] ext \in {<<".","c">>, <<".","h">>} -> "c"
    [] ext = <<".","g","o">> -> "go"
    [] ext = <<".","r","s">> -> "rust"
    [] ext = <<".","r","b">> -> "ruby"
    [] ext = <<".","p","h","p">> -> "php"
    [] OTHER -> None

\* C5: every call of detect_language returns, and returns the table entry
\* of the path's final extension (read without regard to case), None when
\* the extension is unknown or absent; the answer is the same on every
\* extractor, whatever its registry holds, and the registry is left as
\* _init_languages built it.
C5_DetectLanguageTable ==
  \A e \in Extractors :
    Detected(e) =>
      /\ result[e] =
           ReturnedLanguage(TableEntry(lower(PathSuffix(input.file_path[1]))))
      /\ \A o \in Extractors : Detected(o) => result[o] = result[e]
      /\ parsers[e] = _init_languages({}, loadable[e])
      /\ languages[e] = _init_languages({}, loadable[e])

\* C5 witness: two extractors with different registries have both answered
\* "rust" for a.tar.RS, a path whose final extension is in capitals
C5_Witness ==
  /\ input.op = "detect_language"
  /\ input.file_path[1] = <<"a",".","t","a","r",".","R","S">>
  /\ parsers[1] # parsers[2]
  /\ \A e \in Extractors : Detected(e) /\ result[e] = ReturnedLanguage("rust")

(***************************************************************************)
(* Properties of extract_features, continued.                              *)
(***************************************************************************)
\* C6: for each of the eleven languages, extract_features of the empty
\* source returns a CodeFeatures whose eight lists are empty and whose
\* language is the one requested, on the grammar path and on the fallback
\* path.
C6_EmptySource ==
  \A e \in Extractors :
    (Extracted(e) /\ input.code = EmptyText
       /\ input.language \in RegistryLanguages)
      => /\ result[e].status = "returned"
         /\ \A field \in ListFields : result[e].value[field] = << >>
         /\ result[e].value.language = input.language

\* C6 witness: the empty source extracted as tsx, by an extractor that
\* holds the tsx grammar and by one that does not
C6_Witness ==
  /\ input.op = "extract_features"
  /\ input.code = EmptyText
  /\ input.language = "tsx"
  /\ \A e \in Extractors : ExtractReturned(e)
  /\ \E e \in Extractors : ~ViaFallback(e)
  /\ \E e \in Extractors : ViaFallback(e)

\* the normalisation step has been applied twice
Renormalised == input.op = "normalise" /\ result[2] # NoResult

\* C7: applying the normalisation step to an already normalised
\* CodeFeatures leaves the set of entries of each of the eight fields as it
\* was.
C7_NormaliseIdempotent ==
  Renormalised =>
    \A field \in ListFields :
      Range(result[2].value[field]) = Range(result[1].value[field])

\* C7 witness: the first application dropped and rewrote entries of
\* strings, and the second, under another hash seed, kept the two entries
\* left but gave them in another order
C7_Witness ==
  /\ Renormalised
  /\ hashseed[1] # hashseed[2]
  /\ Range(result[1].value.strings) # Range(input.features.strings)
  /\ Len(result[1].value.strings) = 2
  /\ result[2].value.strings # result[1].value.strings

\* the add function of claim C8 was extracted with the Python grammar
PyAddExtracted(e) ==
  /\ Extracted(e)
  /\ input.code = PyAddSource
  /\ input.language = "python"
  /\ ~ViaFallback(e)

AddName == <<"a","d","d">>

AddDocstring ==
  <<"A","d","d","s"," ","t","w","o"," ","n","u","m","b","e","r","s",".">>

\* C8 as stated: the add function yields function_names = ["add"],
\* docstrings containing "Adds two numbers." and strings empty.
C8_DocstringNotInStrings ==
  \A e \in Extractors :
    PyAddExtracted(e) =>
      /\ result[e].status = "returned"
      /\ result[e].value.function_names = <<AddName>>
      /\ AddDocstring \in Range(result[e].value.docstrings)
      /\ result[e].value.strings = << >>

\* C8 amended: the add function yields function_names = ["add"],
\* docstrings = ["Adds two numbers."] and strings = ["Adds two numbers."]:
\* the docstring is a string node, so it is counted in strings as well.
C8_DocstringAlsoInStrings ==
  \A e \in Extractors :
    PyAddExtracted(e) =>
      /\ result[e].status = "returned"
      /\ result[e].value.function_names = <<AddName>>
      /\ result[e].value.docstrings = <<AddDocstring>>
      /\ result[e].value.strings = <<AddDocstring>>

\* C8 witness: an extractor holding the Python grammar has returned from
\* the add function with its docstring found
C8_Witness ==
  \E e \in Extractors :
    /\ PyAddExtracted(e)
    /\ result[e].status = "returned"
    /\ result[e].value.docstrings # << >>

\* the source of claim C9 was extracted with the JavaScript grammar
JsFooExtracted(e) ==
  /\ Extracted(e)
  /\ input.code = JsFooSource
  /\ input.language = "javascript"
  /\ ~ViaFallback(e)

\* C9: '// regular comment' followed by 'function foo(){}' yields comments
\* containing the text of the comment, function_names = ["foo"] and no
\* docstring.
C9_LineCommentAndFunction ==
  \A e \in Extractors :
    JsFooExtracted(e) =>
      /\ result[e].status = "returned"
      /\ <<"/","/"," ","r","e","g","u","l","a","r"," ","c","o","m","m","e","n","t">>
           \in Range(result[e].value.comments)
      /\ result[e].value.function_names = << <<"f","o","o">> >>
      /\ result[e].value.docstrings = << >>

\* C9 witness: an extractor holding the JavaScript grammar has returned
\* from that source with one comment
C9_Witness ==
  \E e \in Extractors :
    /\ JsFooExtracted(e)
    /\ result[e].status = "returned"
    /\ Len(result[e].value.comments) = 1

\* C10: two extractors that both take the fallback path for the same source
\* and language return CodeFeatures that are equal field by field, the
\* order of the entries included.
C10_FallbackDeterministic ==
  \A e \in Extractors : \A o \in Extractors :
    (ExtractReturned(e) /\ ViaFallback(e) /\ ExtractReturned(o) /\ ViaFallback(o))
      => /\ result[e].value.language = result[o].value.language
         /\ result[e].value.file_path = result[o].value.file_path
         /\ \A field \in ListFields :
              result[e].value[field] = result[o].value[field]

\* C10 witness: two extractors in processes with different hash seeds have
\* both returned from the fallback path, with two different entries in one
\* list
C10_Witness ==
  /\ hashseed[1] # hashseed[2]
  /\ \A e \in Extractors : ExtractReturned(e) /\ ViaFallback(e)
  /\ Cardinality(Range(result[1].value.variable_names)) >= 2

(***************************************************************************)
(* Properties of _fallback_extraction.                                     *)
(***************************************************************************)
\* the languages _fallback_extraction names in its tests
FallbackLanguages == {"python"} \cup CLikeCommentLanguages

\* extractor e has returned from the fallback path for a language that
\* _fallback_extraction does not name
UnrecognisedFallback(e) ==
  /\ Extracted(e)
  /\ ViaFallback(e)
  /\ input.language \notin FallbackLanguages

\* what the three string patterns find in a text, pattern after pattern
QuotedMatches(code) ==
  ExtendAll(<< >>, [i \in 1..Len(string_patterns) |->
                     findall(string_patterns[i], 1, code)])

\* C11 as stated: the fallback path never raises, and for a language it
\* does not recognise it returns a CodeFeatures whose eight list fields are
\* all empty, whatever the source text, with the language it was given.
C11_UnrecognisedAllEmpty ==
  \A e \in Extractors :
    UnrecognisedFallback(e) =>
      /\ result[e].status = "returned"
      /\ \A field \in ListFields : result[e].value[field] = << >>
      /\ result[e].value.language = input.language

\* C11 amended: the fallback path never raises, and for a language it does
\* not recognise it returns a CodeFeatures with the language it was given,
\* whose strings are what the three quoted-string patterns find in the
\* source text and whose seven other list fields are empty.
C11_UnrecognisedOnlyStrings ==
  \A e \in Extractors :
    /\ (Extracted(e) /\ ViaFallback(e)) => result[e].status = "returned"
    /\ UnrecognisedFallback(e) =>
         /\ result[e].value.strings = QuotedMatches(input.code)
         /\ \A field \in ListFields \ {"strings"} :
              result[e].value[field] = << >>
         /\ result[e].value.language = input.language
         /\ result[e].value.file_path = input.file_path

\* C11 witness: the fallback path has returned for kotlin from a source
\* text in which the python patterns find comments and assignments, with
\* the quoted strings of the text and nothing else
C11_Witness ==
  \E e \in Extractors :
    /\ UnrecognisedFallback(e)
    /\ input.language = "kotlin"
    /\ input.code = PyDupSource
    /\ findall(PyCommentPattern, 0, input.code) # << >>
    /\ result[e].status = "returned"
    /\ Len(result[e].value.strings) = 3
    /\ result[e].value.comments = << >>

(***************************************************************************)
(* get_code_similarity_features of GitHubService.                          *)
(***************************************************************************)
\* the empty dict
EmptyDict == [k \in {} |-> None]

\* d.get(k, default)
Get(d, k, default) == IF k \in DOMAIN d THEN d[k] ELSE default

\* str.isupper() / str.islower(): the text holds a cased character and no
\* cased character of the other case
isupper(s) ==
  /\ \E i \in 1..Len(s) : s[i] \in Range(UpperLetters)
  /\ \A i \in 1..Len(s) : s[i] \notin Range(LowerLetters)

islower(s) ==
  /\ \E i \in 1..Len(s) : s[i] \in Range(LowerLetters)
  /\ \A i \in 1..Len(s) : s[i] \notin Range(UpperLetters)

\* str.isdigit()
isdigit(s) == s # << >> /\ \A i \in 1..Len(s) : s[i] \in Digits

\* len(s.split())
SplitLen(s) ==
  Cardinality({i \in 1..Len(s) :
                 /\ s[i] \notin Whitespace
                 /\ (i = 1 \/ s[i - 1] \in Whitespace)})

\* the patterns a loop appends for the entries of a list: classify gives
\* the pattern of an entry in a list, or the empty list
Patterns(entries, classify(_)) ==
  ExtendAll(<< >>, [i \in 1..Len(entries) |-> classify(entries[i])])

\* a variant of FunctionPattern without the length filter
FunctionPatternAnyLength(func_name) ==
  IF func_name = << >> THEN << >>
  ELSE IF "_" \in Range(func_name) THEN <<"snake_case">>
  ELSE IF islower(<<func_name[1]>>)
          /\ \E i \in 1..Len(func_name) : isupper(<<func_name[i]>>)
    THEN <<"camelCase">>
  ELSE IF isupper(<<func_name[1]>>) THEN <<"PascalCase">>
  ELSE << >>

\* lines 228-235
FunctionPattern(func_name) ==
  IF ~(Len(func_name) > 2) THEN << >>
  ELSE IF "_" \in Range(func_name) THEN <<"snake_case">>
  ELSE IF islower(<<func_name[1]>>)
          /\ \E i \in 1..Len(func_name) : isupper(<<func_name[i]>>)
    THEN <<"camelCase">>
  ELSE IF isupper(<<func_name[1]>>) THEN <<"PascalCase">>
  ELSE << >>

\* lines 239-245
VariablePattern(var_name) ==
  IF ~(Len(var_name) > 1) THEN << >>
  ELSE IF isupper(var_name) THEN <<"CONSTANT">>
  ELSE IF "_" \in Range(var_name) THEN <<"snake_case">>
  ELSE IF islower(<<var_name[1]>>) THEN <<"camelCase">>
  ELSE << >>

\* a variant of StringPattern without the length filter
StringPatternAnyLength(string_val) ==
  IF startswith(string_val, <<"h","t","t","p">>) THEN <<"url_pattern">>
  ELSE IF "@" \in Range(string_val) THEN <<"email_pattern">>
  ELSE IF isdigit(string_val) THEN <<"numeric_string">>
  ELSE IF SplitLen(string_val) > 3 THEN <<"sentence_pattern">>
  ELSE << >>

\* lines 249-258
StringPattern(string_val) ==
  IF ~(Len(string_val) > 5) THEN << >>
  ELSE IF startswith(string_val, <<"h","t","t","p">>) THEN <<"url_pattern">>
  ELSE IF "@" \in Range(string_val) THEN <<"email_pattern">>
  ELSE IF isdigit(string_val) THEN <<"numeric_string">>
  ELSE IF SplitLen(string_val) > 3 THEN <<"sentence_pattern">>
  ELSE << >>

\* a variant of CommentPattern without the length filter
CommentPatternAnyLength(comment) ==
  LET comment_clean == lower(strip_chars(comment, {"#", "/", "*", " "}))
      todo == { <<"t","o","d","o">>, <<"f","i","x","m","e">>, <<"h","a","c","k">> }
      header == { <<"c","o","p","y","r","i","g","h","t">>,
                  <<"l","i","c","e","n","s","e">>, <<"a","u","t","h","o","r">> }
  IN  IF \E word \in todo : Contains(comment_clean, word)
        THEN <<"todo_comment">>
      ELSE IF \E word \in header : Contains(comment_clean, word)
        THEN <<"header_comment">>
      ELSE <<"description_comment">>

\* lines 262-269
CommentPattern(comment) ==
  LET comment_clean == lower(strip_chars(comment, {"#", "/", "*", " "}))
      todo == { <<"t","o","d","o">>, <<"f","i","x","m","e">>, <<"h","a","c","k">> }
      header == { <<"c","o","p","y","r","i","g","h","t">>,
                  <<"l","i","c","e","n","s","e">>, <<"a","u","t","h","o","r">> }
  IN  IF ~(Len(comment_clean) > 10) THEN << >>
      ELSE IF \E word \in todo : Contains(comment_clean, word)
        THEN <<"todo_comment">>
      ELSE IF \E word \in header : Contains(comment_clean, word)
        THEN <<"header_comment">>
      ELSE <<"description_comment">>

\* lines 274-279
ImportPattern(import_stmt) ==
  IF Contains(import_stmt, <<"n","u","m","p","y">>)
       \/ Contains(import_stmt, <<"p","a","n","d","a","s">>)
    THEN <<"data_science">>
  ELSE IF Contains(import_stmt, <<"f","l","a","s","k">>)
            \/ Contains(import_stmt, <<"d","j","a","n","g","o">>)
    THEN <<"web_framework">>
  ELSE IF Contains(import_stmt, <<"r","e","q","u","e","s","t","s">>)
            \/ Contains(import_stmt, <<"u","r","l","l","i","b">>)
    THEN <<"http_library">>
  ELSE << >>

\* max(a, b)
max(a, b) == IF a >= b THEN a ELSE b

RECURSIVE GCD(_, _)
GCD(a, b) == IF b = 0 THEN a ELSE GCD(b, a % b)

\* a / b for ints a >= 0 and b >= 1: the quotient, as the fraction in
\* lowest terms
TrueDiv(a, b) == [num |-> a \div GCD(a, b), den |-> b \div GCD(a, b)]

\* a variant of get_code_similarity_features whose ratios divide by the
\* counts as they are, without the floor of 1
get_code_similarity_features_no_floor(self, features) ==
  LET aggregated == Get(features, "aggregated_features", EmptyDict)
      function_signature_patterns ==
        Patterns(Get(aggregated, "function_names", << >>), FunctionPattern)
      variable_naming_patterns ==
        Patterns(Get(aggregated, "variable_names", << >>), VariablePattern)
      string_patterns_found ==
        Patterns(Get(aggregated, "strings", << >>), StringPattern)
      comment_patterns ==
        Patterns(Get(aggregated, "comments", << >>), CommentPattern)
      import_patterns ==
        Patterns(Get(aggregated, "imports", << >>), ImportPattern)
      extraction_stats == Get(features, "extraction_stats", EmptyDict)
      feature_counts == Get(extraction_stats, "feature_counts", EmptyDict)
      classes == Get(feature_counts, "unique_classes", 1)
      functions == Get(feature_counts, "unique_functions", 1)
  IN  IF classes = 0 \/ functions = 0
        THEN EmptyDict
        ELSE
          [function_signature_patterns |->
             ListOfSet(function_signature_patterns, hashseed[self]),
           variable_naming_patterns |->
             ListOfSet(variable_naming_patterns, hashseed[self]),
           string_patterns |-> ListOfSet(string_patterns_found, hashseed[self]),
           comment_patterns |-> ListOfSet(comment_patterns, hashseed[self]),
           import_patterns |-> ListOfSet(import_patterns, hashseed[self]),
           code_structure_metrics |->
             [function_to_class_ratio |->
                TrueDiv(Get(feature_counts, "unique_functions", 0), classes),
              comment_density |->
                TrueDiv(Get(feature_counts, "unique_comments", 0), functions),
              import_diversity |-> Cardinality(Range(import_patterns)),
              naming_consistency |->
                [function_patterns |->
                   Cardinality(Range(function_signature_patterns)),
                 variable_patterns |->
                   Cardinality(Range(variable_naming_patterns))]]]

\* get_code_similarity_features(features) in the process of extractor self,
\* for a dict of dicts whose lists hold str and whose counts are ints >= 0.
\* A division by zero would raise ZeroDivisionError inside the try of line
\* 213, and the except of lines 308-310 would return {}.
get_code_similarity_features(self, features) ==
  LET aggregated == Get(features, "aggregated_features", EmptyDict)
      function_signature_patterns ==
        Patterns(Get(aggregated, "function_names", << >>), FunctionPattern)
      variable_naming_patterns ==
        Patterns(Get(aggregated, "variable_names", << >>), VariablePattern)
      string_patterns_found ==
        Patterns(Get(aggregated, "strings", << >>), StringPattern)
      comment_patterns ==
        Patterns(Get(aggregated, "comments", << >>), CommentPattern)
      import_patterns ==
        Patterns(Get(aggregated, "imports", << >>), ImportPattern)
      extraction_stats == Get(features, "extraction_stats", EmptyDict)
      feature_counts == Get(extraction_stats, "feature_counts", EmptyDict)
      classes == max(Get(feature_counts, "unique_classes", 1), 1)
      functions == max(Get(feature_counts, "unique_functions", 1), 1)
  IN  IF classes = 0 \/ functions = 0
        THEN EmptyDict
        ELSE
          [function_signature_patterns |->
             ListOfSet(function_signature_patterns, hashseed[self]),
           variable_naming_patterns |->
             ListOfSet(variable_naming_patterns, hashseed[self]),
           string_patterns |-> ListOfSet(string_patterns_found, hashseed[self]),
           comment_patterns |-> ListOfSet(comment_patterns, hashseed[self]),
           import_patterns |-> ListOfSet(import_patterns, hashseed[self]),
           code_structure_metrics |->
             [function_to_class_ratio |->
                TrueDiv(Get(feature_counts, "unique_functions", 0), classes),
              comment_density |->
                TrueDiv(Get(feature_counts, "unique_comments", 0), functions),
              import_diversity |-> Cardinality(Range(import_patterns)),
              naming_consistency |->
                [function_patterns |->
                   Cardinality(Range(function_signature_patterns)),
                 variable_patterns |->
                   Cardinality(Range(variable_naming_patterns))]]]

(***************************************************************************)
(* The aggregation of CodeFeatures into the dict that                      *)
(* get_code_similarity_features reads, and the two steps as a              *)
(* specification: feature sets are aggregated by extractor 1's service and *)
(* the aggregate, or a dict a caller built, is projected by extractor 2's. *)
(***************************************************************************)
\* the aggregate of a sequence of CodeFeatures: each list field holds the
\* entries of the field in every CodeFeatures, in order, and feature_counts
\* holds the numbers of distinct functions, classes and comments
AggregateFeatures(parts) ==
  LET all(field) == ExtendAll(<< >>, [i \in 1..Len(parts) |-> parts[i][field]])
  IN  [aggregated_features |-> [field \in ListFields |-> all(field)],
       extraction_stats |->
         [feature_counts |->
            [unique_functions |-> Cardinality(Range(all("function_names"))),
             unique_classes |-> Cardinality(Range(all("class_names"))),
             unique_comments |-> Cardinality(Range(all("comments")))]]]

\* function names: PascalCase, snake_case, camelCase and capitals
PascalNames == { <<"G","o">>, <<"F","o","o">>, <<"F","o","o","B","a","r">> }

SnakeNames ==
  { <<"m","a","i","n">>, <<"g","e","t","_","x">>, <<"_","a">> }

OtherNames == { <<"g","e","t","X">>, <<"M","A","X">> }

\* the function names of the first and of the second CodeFeatures
FirstNameLists == TextsUpTo(PascalNames \cup OtherNames, MaxEntries)

SecondNameLists == TextsUpTo(SnakeNames \cup OtherNames, MaxEntries)

\* the fields of a CodeFeatures besides its function names: all empty, or
\* one with entries of every kind the projection tells apart
PopulatedFeatures ==
  [CodeFeatures("python", << >>) EXCEPT
     !.variable_names = << <<"M","A","X">>, <<"m","y","_","x">>, <<"i","d">>,
                           <<"i">>, <<"F","o","o">> >>,
     !.strings = << <<"h","t","t","p",":","/","/","a">>,
                    <<"a","@","b",".","o","r","g">>,
                    <<"1","2","3","4","5","6">>,
                    <<"a"," ","b"," ","c"," ","d">>,
                    <<"h","e","l","l","o","!">>, <<"a","b","c">> >>,
     !.comments = << <<"#"," ","T","O","D","O",":"," ","f","i","x"," ","t","h","i","s">>,
                     <<"/","/"," ","A","u","t","h","o","r",":"," ","m","e","!","!">>,
                     <<"/","*"," ","a","d","d","s"," ","n","u","m","b","e","r","s"," ","*","/">>,
                     <<"#"," ","h","i">> >>,
     !.class_names = << <<"F","o","o">> >>,
     !.imports = << <<"i","m","p","o","r","t"," ","n","u","m","p","y">>,
                    <<"i","m","p","o","r","t"," ","f","l","a","s","k">>,
                    <<"i","m","p","o","r","t"," ","u","r","l","l","i","b">>,
                    <<"i","m","p","o","r","t"," ","o","s">> >>]

FirstFeatures ==
  { [base EXCEPT !.function_names = names] :
      base \in {CodeFeatures("python", << >>), PopulatedFeatures},
      names \in FirstNameLists }

SecondFeatures ==
  { [CodeFeatures("python", << >>) EXCEPT !.function_names = names] :
      names \in SecondNameLists }

\* the largest count of a feature_counts a caller built
MaxCount == 2

CountKeys == {"unique_functions", "unique_classes", "unique_comments"}

\* the dicts a caller may build: with any of the three counts or without,
\* without feature_counts, without extraction_stats
CallerDicts ==
  { [aggregated_features |-> AggregateFeatures(<<PopulatedFeatures>>).aggregated_features,
     extraction_stats |-> [feature_counts |-> counts]] :
      counts \in UNION {[keys -> 0..MaxCount] : keys \in SUBSET CountKeys} }
    \cup { [extraction_stats |-> EmptyDict], EmptyDict }

SimilarityInput(op, parts, features) ==
  [op |-> op, parts |-> parts, features |-> features]

SimilarityInputs ==
  {SimilarityInput("aggregate", <<a, b>>, EmptyDict) :
     a \in FirstFeatures, b \in SecondFeatures}
    \cup {SimilarityInput("project", << >>, d) : d \in CallerDicts}

SimilarityInit ==
  /\ loadable = [e \in Extractors |-> AllGrammars]
  /\ parsers = [e \in Extractors |-> _init_languages({}, loadable[e])]
  /\ languages = [e \in Extractors |-> _init_languages({}, loadable[e])]
  /\ hashseed \in [Extractors -> HashSeeds]
  /\ input \in SimilarityInputs
  /\ result = [e \in Extractors |-> NoResult]

\* the feature sets of the input are aggregated
Aggregate ==
  /\ input.op = "aggregate"
  /\ result[1] = NoResult
  /\ result' = [result EXCEPT ![1] = Returned(AggregateFeatures(input.parts))]
  /\ UNCHANGED <<loadable, parsers, languages, hashseed, input>>

\* the dict get_code_similarity_features is called with
ProjectedDict == IF input.op = "aggregate" THEN result[1].value ELSE input.features

GetCodeSimilarityFeatures ==
  /\ input.op = "aggregate" => result[1] # NoResult
  /\ result[2] = NoResult
  /\ result' = [result EXCEPT
                  ![2] = Returned(get_code_similarity_features(2, ProjectedDict))]
  /\ UNCHANGED <<loadable, parsers, languages, hashseed, input>>

SimilarityNext == Aggregate \/ GetCodeSimilarityFeatures

SpecSimilarity == SimilarityInit /\ [][SimilarityNext]_vars

(***************************************************************************)
(* Properties of get_code_similarity_features.                             *)
(***************************************************************************)
\* an aggregate of two CodeFeatures has been projected
AggregateProjected == input.op = "aggregate" /\ result[2] # NoResult

\* PascalCase: a capital first, no underscore, and a small letter
IsPascalCase(name) ==
  /\ name # << >>
  /\ isupper(<<name[1]>>)
  /\ "_" \notin Range(name)
  /\ \E i \in 1..Len(name) : islower(<<name[i]>>)

\* snake_case: small letters, digits and underscores
IsSnakeCase(name) ==
  /\ islower(name)
  /\ \A i \in 1..Len(name) : name[i] \in WordChars

\* the first CodeFeatures has function names, all PascalCase, and the
\* second has function names, all snake_case
PascalAndSnake ==
  /\ input.parts[1].function_names # << >>
  /\ \A name \in Range(input.parts[1].function_names) : IsPascalCase(name)
  /\ input.parts[2].function_names # << >>
  /\ \A name \in Range(input.parts[2].function_names) : IsSnakeCase(name)

function_patterns ==
  result[2].value.code_structure_metrics.naming_consistency.function_patterns

\* C12 as stated: the aggregate of a CodeFeatures whose function names are
\* all PascalCase and one whose function names are all snake_case is
\* projected to a function naming-pattern diversity of exactly 2.
C12_PascalAndSnakeGiveTwo ==
  (AggregateProjected /\ PascalAndSnake) => function_patterns = 2

\* C12 amended: for such an aggregate the diversity counts the PascalCase
\* set if one of its names is longer than 2 characters and the snake_case
\* set if one of its names is longer than 2 characters and holds an
\* underscore; it is 2 when both are so, and the patterns returned are then
\* PascalCase and snake_case.
C12_LongNamesGiveTwo ==
  (AggregateProjected /\ PascalAndSnake) =>
    LET pascal == \E name \in Range(input.parts[1].function_names) :
                    Len(name) > 2
        snake == \E name \in Range(input.parts[2].function_names) :
                   Len(name) > 2 /\ "_" \in Range(name)
    IN  /\ function_patterns = (IF pascal THEN 1 ELSE 0) + (IF snake THEN 1 ELSE 0)
        /\ (pascal /\ snake) =>
             Range(result[2].value.function_signature_patterns)
               = {"PascalCase", "snake_case"}

\* C12 witness: the aggregate of [Go, FooBar] and [main, get_x] has been
\* projected to a diversity of 2
C12_Witness ==
  /\ AggregateProjected
  /\ PascalAndSnake
  /\ input.parts[1].function_names = << <<"G","o">>, <<"F","o","o","B","a","r">> >>
  /\ input.parts[2].function_names = << <<"m","a","i","n">>, <<"g","e","t","_","x">> >>
  /\ function_patterns = 2

(***************************************************************************)
(* _init_languages statement by statement: what each language's grammar    *)
(* does when it is loaded decides which statement of the try body raises.  *)
(***************************************************************************)
\* what loading a grammar does: it succeeds, the import raises ImportError,
\* the module has no language function, Language(...) raises, or
\* Parser(...) raises
Outcomes == {"ok", "ImportError", "no_function", "Language", "Parser"}

\* a variant of Register that assigns self.languages before the parser is
\* built
RegisterLanguageFirst(registry, lang_name, outcome) ==
  [parsers |-> IF outcome = "ok"
                 THEN registry.parsers \cup {lang_name}
                 ELSE registry.parsers,
   languages |-> IF outcome \in {"ok", "Parser"}
                   THEN registry.languages \cup {lang_name}
                   ELSE registry.languages]

\* lines 45-66 (and 76-79, 81-84) for one language: the two assignments
\* are reached when nothing before them raised or skipped
Register(registry, lang_name, outcome) ==
  IF outcome = "ok"
    THEN [parsers |-> registry.parsers \cup {lang_name},
          languages |-> registry.languages \cup {lang_name}]
    ELSE registry

\* the loop of lines 43-73 from lang_mappings[i] on: each pass has its own
\* try statement
RECURSIVE RegisterLoop(_, _, _)
RegisterLoop(registry, grammars, i) ==
  IF i > Len(lang_mappings)
    THEN registry
    ELSE RegisterLoop(Register(registry, lang_mappings[i],
                               grammars[lang_mappings[i]]),
                      grammars, i + 1)

\* lines 75-92: typescript and tsx are registered in ONE try statement, so
\* an exception on the way to typescript leaves the statement before tsx
RegisterTypeScript(registry, grammars) ==
  LET typescript == Register(registry, "typescript", grammars["typescript"])
  IN  IF grammars["typescript"] # "ok"
        THEN typescript
        ELSE Register(typescript, "tsx", grammars["tsx"])

\* _init_languages on a registry, with the two dicts kept apart
InitLanguages(registry, grammars) ==
  RegisterTypeScript(RegisterLoop(registry, grammars, 1), grammars)

\* the languages whose grammar may fail to load in the model
FailingLanguages == {"php", "typescript", "tsx"}

\* the grammars of a process: typescript and tsx come from one module, so
\* the import fails for both or for neither
GrammarOutcomes ==
  { [l \in RegistryLanguages |->
       IF l \in FailingLanguages THEN failing[l] ELSE "ok"] :
      failing \in { f \in [FailingLanguages -> Outcomes] :
                      f["typescript"] = "ImportError"
                        <=> f["tsx"] = "ImportError" } }

\* the largest number of runs of _init_languages on one extractor
MaxRuns == 2

\* _init_languages has returned n times on an extractor
Initialised(n) == [status |-> "returned", runs |-> n]

InitLanguagesInit ==
  /\ loadable \in [Extractors -> GrammarOutcomes]
  /\ parsers = [e \in Extractors |-> {}]
  /\ languages = [e \in Extractors |-> {}]
  /\ hashseed = [e \in Extractors |-> 0]
  /\ input = [op |-> "_init_languages"]
  /\ result = [e \in Extractors |-> NoResult]

\* TreeSitterExtractor(): the two empty dicts, then _init_languages
Construct(e) ==
  /\ result[e] = NoResult
  /\ LET registry == InitLanguages([parsers |-> {}, languages |-> {}],
                                   loadable[e])
     IN  /\ parsers' = [parsers EXCEPT ![e] = registry.parsers]
         /\ languages' = [languages EXCEPT ![e] = registry.languages]
  /\ result' = [result EXCEPT ![e] = Initialised(1)]
  /\ UNCHANGED <<loadable, hashseed, input>>

\* _init_languages called again on a constructed extractor
Reinitialise(e) ==
  /\ result[e] # NoResult
  /\ result[e].runs < MaxRuns
  /\ LET registry == InitLanguages([parsers |-> parsers[e],
                                    languages |-> languages[e]], loadable[e])
     IN  /\ parsers' = [parsers EXCEPT ![e] = registry.parsers]
         /\ languages' = [languages EXCEPT ![e] = registry.languages]
  /\ result' = [result EXCEPT ![e] = Initialised(result[e].runs + 1)]
  /\ UNCHANGED <<loadable, hashseed, input>>

InitLanguagesNext == \E e \in Extractors : Construct(e) \/ Reinitialise(e)

SpecInitLanguages == InitLanguagesInit /\ [][InitLanguagesNext]_vars

(***************************************************************************)
(* Properties of _init_languages.                                          *)
(***************************************************************************)
\* extractor e has been constructed
Constructed(e) == input.op = "_init_languages" /\ result[e] # NoResult

\* C13: whatever grammars load or fail, constructing the extractor does not
\* raise, each language whose grammar failed is absent from parsers and
\* from languages, and each language whose grammar loads is present in
\* both, typescript and tsx each on its own account.
C13_FailuresIsolated ==
  \A e \in Extractors :
    Constructed(e) =>
      /\ result[e].status = "returned"
      /\ \A l \in RegistryLanguages :
           IF loadable[e][l] = "ok"
             THEN l \in parsers[e] /\ l \in languages[e]
             ELSE l \notin parsers[e] /\ l \notin languages[e]

\* C14: a run of _init_languages on an extractor that is already
\* initialised returns and leaves parsers and languages with the keys they
\* had, and after every run the two dicts have the same keys.
C14_InitIdempotent ==
  [][\A e \in Extractors :
       /\ Constructed(e)' =>
            /\ result'[e].status = "returned"
            /\ parsers'[e] = languages'[e]
       /\ Constructed(e) =>
            /\ parsers'[e] = parsers[e]
            /\ languages'[e] = languages[e]]_vars

\* C14 witness: _init_languages has run twice on an extractor for which
\* Parser(...) raised for one grammar and the others loaded
C14_Witness ==
  \E e \in Extractors :
    /\ Constructed(e)
    /\ result[e].runs = 2
    /\ loadable[e]["php"] = "Parser"
    /\ parsers[e] = RegistryLanguages \ {"php"}

(***************************************************************************)
(* Calls in flight on one extractor.  The calls of result[c], c in Calls,  *)
(* are made on extractor 1 by threads of its process and advance one       *)
(* stretch of extract_features at a time, in any order.  A CodeFeatures is *)
(* an object: a call holds a reference to it, and what is written through  *)
(* a reference is seen through every reference to the same object.         *)
(***************************************************************************)
Calls == {1, 2}

\* a variant of FreshRef that hands every call the same object
SharedRef(calls) == 1

\* the reference of the object a constructor call creates: one that no
\* call holds
FreshRef(calls) ==
  1 + Cardinality({calls[c].ref : c \in DOMAIN calls} \ {0})

\* the object behind reference ref is assigned, or has its lists extended
Store(calls, ref, features) ==
  [c \in DOMAIN calls |->
     IF calls[c].ref = ref THEN [calls[c] EXCEPT !.features = features]
                           ELSE calls[c]]

\* a call not started: no object yet, no outcome
NoFeatures == CodeFeatures(None, << >>)

NewCall == [pc |-> "begin", ref |-> 0, features |-> NoFeatures,
            outcome |-> NoResult]

\* a source text that is one string literal
QuotedSource == <<"\"","a","b","c","\"">>

\* the calls made: on the grammar path, on the fallback path, a tree too
\* deep to traverse, detect_language
CallInputs ==
  { ExtractInput(QuotedSource, "python", << >>,
                 FlatTree("python", QuotedSource, StringType("python"))),
    ExtractInput(QuotedSource, "javascript", << >>,
                 FlatTree("javascript", QuotedSource, StringType("javascript"))),
    ExtractInput(PyDeepSource, "python", << >>, PyDeepTree),
    ExtractInput(QuotedSource, "kotlin", << >>, NotParsed),
    DetectInput(<<"m","a","i","n",".","p","y">>) }

CallsInit ==
  /\ \E g \in GrammarSets : loadable = [e \in Extractors |-> g]
  /\ parsers = [e \in Extractors |-> _init_languages({}, loadable[e])]
  /\ languages = [e \in Extractors |-> _init_languages({}, loadable[e])]
  /\ \E seed \in HashSeeds : hashseed = [e \in Extractors |-> seed]
  /\ \E a \in CallInputs : \E b \in CallInputs :
       input = [op |-> "calls", calls |-> <<a, b>>]
  /\ result = [c \in Calls |-> NewCall]

\* call c ends with an outcome
End(calls, c, outcome) ==
  [calls EXCEPT ![c].pc = "done", ![c].outcome = outcome]

\* detect_language, or extract_features up to the constructor call: the
\* test of line 118 and lines 701-712, or lines 122-136
Begin(c) ==
  LET in == input.calls[c]
      ref == FreshRef(result)
      created == Store([result EXCEPT ![c].ref = ref], ref,
                       CodeFeatures(in.language, in.file_path))
  IN  /\ result[c].pc = "begin"
      /\ result' =
           IF in.op = "detect_language"
             THEN End(result, c, ReturnedLanguage(detect_language(in.file_path[1])))
           ELSE IF in.language \notin parsers[1]
             THEN [created EXCEPT ![c].pc = "fallback"]
             ELSE [created EXCEPT ![c].pc = "traverse"]
      /\ UNCHANGED <<loadable, parsers, languages, hashseed, input>>

\* lines 714-747: the lists of the object are extended, and it is returned
Fallback(c) ==
  LET in == input.calls[c]
      found == _fallback_extraction(1, in.code, in.language, in.file_path)
      extended == [field \in DOMAIN found |->
                     IF field \in ListFields
                       THEN result[c].features[field] \o found[field]
                       ELSE result[c].features[field]]
  IN  /\ result[c].pc = "fallback"
      /\ result' = End(Store(result, result[c].ref, extended), c,
                       [status |-> "returned"])
      /\ UNCHANGED <<loadable, parsers, languages, hashseed, input>>

\* lines 138-155: the traversal appends to the lists of the object, or
\* ends the call with a RecursionError
Traverse(c) ==
  LET in == input.calls[c]
  IN  /\ result[c].pc = "traverse"
      /\ result' =
           IF Height(in.tree, 1) > RecursionLimit
             THEN End(result, c, Raised("RecursionError"))
             ELSE [Store(result, result[c].ref,
                         traverse(RuleSetOf(in.language), in.tree, 1, in.code,
                                  result[c].features))
                     EXCEPT ![c].pc = "normalise"]
      /\ UNCHANGED <<loadable, parsers, languages, hashseed, input>>

\* lines 157-166: the lists of the object are replaced by their normalised
\* forms, and it is returned
NormaliseAndReturn(c) ==
  /\ result[c].pc = "normalise"
  /\ result' = End(Store(result, result[c].ref,
                         Normalise(result[c].features, hashseed[1])), c,
                   [status |-> "returned"])
  /\ UNCHANGED <<loadable, parsers, languages, hashseed, input>>

CallsNext ==
  \E c \in Calls :
    Begin(c) \/ Fallback(c) \/ Traverse(c) \/ NormaliseAndReturn(c)

SpecCalls == CallsInit /\ [][CallsNext]_vars

(***************************************************************************)
(* Properties of calls in flight.                                          *)
(***************************************************************************)
\* how call c ends when it is the only call made on extractor 1
Alone(c) ==
  LET in == input.calls[c]
  IN  IF in.op = "detect_language"
        THEN ReturnedLanguage(detect_language(in.file_path[1]))
        ELSE extract_features(1, in.code, in.language, in.file_path, in.tree)

\* call c has ended as it ends alone; a CodeFeatures returned is the
\* object of the call
EndedAsAlone(c) ==
  LET alone == Alone(c)
  IN  IF alone.status = "returned" /\ input.calls[c].op = "extract_features"
        THEN /\ result[c].outcome = [status |-> "returned"]
             /\ result[c].features = alone.value
        ELSE result[c].outcome = alone

\* C15: in every state of every interleaving of calls of extract_features
\* and detect_language on one extractor, parsers and languages are as the
\* constructor left them, no two calls hold the same CodeFeatures, and
\* every call that has ended has ended as it ends when it runs alone, with
\* the CodeFeatures it returned still as it was returned.
C15_CallsIndependent ==
  input.op = "calls" =>
    /\ parsers[1] = _init_languages({}, loadable[1])
    /\ languages[1] = _init_languages({}, loadable[1])
    /\ \A c \in Calls : \A d \in Calls \ {c} :
         result[c].ref # 0 => result[d].ref # result[c].ref
    /\ \A c \in Calls : result[c].pc = "done" => EndedAsAlone(c)

\* C15 witness: two calls of extract_features for the same source are in
\* flight on the grammar path; one has returned its CodeFeatures while the
\* traversal of the other has filled its own and its normalisation is still
\* to come
C15_Witness ==
  /\ input.op = "calls"
  /\ input.calls[1] = input.calls[2]
  /\ result[1].pc = "done"
  /\ result[1].outcome.status = "returned"
  /\ result[1].features.strings # << >>
  /\ result[2].pc = "normalise"
  /\ result[2].features.strings # result[1].features.strings

\* get_code_similarity_features has returned
Projected == input.op \in {"aggregate", "project"} /\ result[2] # NoResult

\* the feature_counts of the dict projected, the empty dict when the dict
\* has none
GivenCounts ==
  LET stats == IF "extraction_stats" \in DOMAIN ProjectedDict
                 THEN ProjectedDict.extraction_stats ELSE EmptyDict
  IN  IF "feature_counts" \in DOMAIN stats THEN stats.feature_counts
                                           ELSE EmptyDict

\* a count as a numerator: 0 when it is missing
Numerator(key) ==
  IF key \in DOMAIN GivenCounts THEN GivenCounts[key] ELSE 0

\* a count as a denominator: 1 when it is missing or 0
Denominator(key) ==
  IF key \in DOMAIN GivenCounts /\ GivenCounts[key] >= 1
    THEN GivenCounts[key] ELSE 1

\* ratio is the quotient n / d
IsQuotient(ratio, n, d) == ratio.den >= 1 /\ ratio.num * d = n * ratio.den

\* C16: for all feature counts, zero or missing ones included, no division
\* by zero occurs (the projection returns its six keys, not the {} of its
\* exception handler), function_to_class_ratio is unique_functions over
\* max(unique_classes, 1) and comment_density is unique_comments over
\* max(unique_functions, 1).
C16_DenominatorFloor ==
  Projected =>
    /\ result[2].status = "returned"
    /\ DOMAIN result[2].value # {}
    /\ IsQuotient(result[2].value.code_structure_metrics.function_to_class_ratio,
                  Numerator("unique_functions"), Denominator("unique_classes"))
    /\ IsQuotient(result[2].value.code_structure_metrics.comment_density,
                  Numerator("unique_comments"), Denominator("unique_functions"))

\* C16 witness: a dict whose unique_classes is 0 and whose unique_functions
\* is missing has been projected, to the ratios 0/1 and 2/1
C16_Witness ==
  /\ Projected
  /\ input.op = "project"
  /\ GivenCounts = [unique_classes |-> 0, unique_comments |-> 2]
  /\ result[2].value.code_structure_metrics.comment_density
       = [num |-> 2, den |-> 1]
  /\ result[2].value.code_structure_metrics.function_to_class_ratio
       = [num |-> 0, den |-> 1]

(***************************************************************************)
(* Properties of the normalisation of strings.                             *)
(***************************************************************************)
\* the delimiters of the string literals the rule sets capture, the longer
\* ones first
StringDelimiters ==
  << <<"\"","\"","\"">>, <<"'","'","'">>, <<"\"">>, <<"'">>, <<Backtick>> >>

\* the raw text of a literal is enclosed in delimiter d
EnclosedIn(s, d) ==
  Len(s) >= 2 * Len(d) /\ startswith(s, d) /\ endswith(s, d)

\* the raw text of a literal without its delimiters: one opening delimiter
\* and the matching closing one are removed, and nothing else
WithoutDelimiters(s) ==
  IF \E i \in 1..Len(StringDelimiters) : EnclosedIn(s, StringDelimiters[i])
    THEN LET i == CHOOSE i \in 1..Len(StringDelimiters) :
                    /\ EnclosedIn(s, StringDelimiters[i])
                    /\ \A j \in 1..(i - 1) : ~EnclosedIn(s, StringDelimiters[j])
             d == StringDelimiters[i]
         IN  Slice(s, Len(d), Len(s) - Len(d))
    ELSE s

\* the normalisation step has been applied to the raw features
NormalisedOnce == input.op = "normalise" /\ result[1] # NoResult

\* C17: the normalisation of strings removes exactly one layer of
\* surrounding quote characters from each raw string literal, keeps the
\* entry only if the stripped text is longer than 2 characters, and
\* deduplicates; quote characters of the content are preserved.
C17_OneLayerStripped ==
  NormalisedOnce =>
    /\ NoDuplicates(result[1].value.strings)
    /\ Range(result[1].value.strings)
         = { WithoutDelimiters(s) : s \in
               { r \in Range(input.features.strings) :
                   Len(WithoutDelimiters(r)) > MinStringLen } }

(***************************************************************************)
(* The nodes traverse() is called on.                                      *)
(***************************************************************************)
\* the calls "traverse(node); for child in node.children: traverse(child)"
\* makes from node n on, in order, when nothing stops them
RECURSIVE Preorder(_, _)
Preorder(tree, n) ==
  <<n>> \o ExtendAll(<< >>, [k \in 1..Len(tree[n].children) |->
                              Preorder(tree, tree[n].children[k])])

\* the number of calls of traverse() that are open when node n is reached
RECURSIVE Depth(_, _)
Depth(tree, n) ==
  IF tree[n].parent = 0 THEN 1 ELSE 1 + Depth(tree, tree[n].parent)

\* the nodes traverse() is called on during extract_features: the calls
\* end at the first node that lies deeper than the interpreter allows
Dispatched(tree) ==
  LET order == Preorder(tree, 1)
      deep == {i \in 1..Len(order) : Depth(tree, order[i]) > RecursionLimit}
  IN  IF deep = {}
        THEN order
        ELSE SubSeq(order, 1, (CHOOSE i \in deep : \A j \in deep : i <= j) - 1)

\* extractor e has ended a call of extract_features on the grammar path
ExtractedByGrammar(e) == Extracted(e) /\ ~ViaFallback(e)

\* C18: on the grammar path, for every syntax tree (trees with ERROR nodes
\* included) and every rule set, the traversal ends and extract_features
\* returns, and every node of the tree has been dispatched exactly once,
\* whether its ancestors matched a rule or not.
C18_EveryNodeOnce ==
  \A e \in Extractors :
    ExtractedByGrammar(e) =>
      /\ result[e].status = "returned"
      /\ \A n \in 1..Len(input.tree) :
           Cardinality({i \in 1..Len(Dispatched(input.tree)) :
                          Dispatched(input.tree)[i] = n}) = 1

(***************************************************************************)
(* Properties of the captures of names.                                    *)
(***************************************************************************)
\* node n is a declaration of the Python or JavaScript/TypeScript rule set
\* whose name child is missing, or is not of the type the rule expects
NamelessDeclaration(rules, tree, n) ==
  LET type == tree[n].type
      name == child_by_field_name(tree, n, "name")
      left == child_by_field_name(tree, n, "left")
  IN  \/ /\ rules = "python"
         /\ \/ type \in {"function_definition", "class_definition"} /\ name = 0
            \/ type = "assignment"
                 /\ (left = 0 \/ tree[left].type # "identifier")
      \/ /\ rules = "js_ts"
         /\ type \in {"function_declaration", "function_expression",
                      "class_declaration", "method_definition",
                      "variable_declarator"}
         /\ name = 0

\* the nodes of the tree of the call that are such declarations
NamelessDeclarations ==
  {n \in 1..Len(input.tree) :
     NamelessDeclaration(RuleSetOf(input.language), input.tree, n)}

\* C19: in every extraction with a grammar that returns, when a declaration
\* node has no name child (or, for a typed target, the child is not of the
\* expected type), dispatching the node appends nothing to any list and
\* raises nothing, and the traversal goes on into the children of the node: from (function(){"abcd"}) no function name is
\* returned, and the string inside is; from a.b = "abcd" no variable name
\* is returned, and the string is.
C19_MissingNameSkipped ==
  \A e \in Extractors :
    (ExtractedByGrammar(e) /\ result[e].status = "returned") =>
      /\ \A n \in NamelessDeclarations :
           /\ Visit(RuleSetOf(input.language), input.tree, n, input.code,
                    CodeFeatures(input.language, input.file_path))
                = CodeFeatures(input.language, input.file_path)
           /\ Range(input.tree[n].children) \subseteq Range(Dispatched(input.tree))
      /\ input.code = JsAnonSource =>
           /\ result[e].value.function_names = << >>
           /\ result[e].value.strings = << <<"a","b","c","d">> >>
      /\ input.code = PyAttrSource =>
           /\ result[e].value.variable_names = << >>
           /\ result[e].value.strings = << <<"a","b","c","d">> >>

\* C19 witness: the function expression without a name has been extracted
\* with the JavaScript grammar, and the string inside it was reached
C19_Witness ==
  \E e \in Extractors :
    /\ ExtractedByGrammar(e)
    /\ input.code = JsAnonSource
    /\ NamelessDeclarations # {}
    /\ result[e].status = "returned"
    /\ result[e].value.strings # << >>

(***************************************************************************)
(* The docstrings of the Python rule set.                                  *)
(***************************************************************************)
\* the lists as traverse() leaves them in a Python extraction, before the
\* normalisation step drops the short entries
RawPython ==
  traverse(RuleSetOf("python"), input.tree, 1, input.code,
           CodeFeatures(input.language, input.file_path))

\* node n is a string that is the expression of the first statement of the
\* body of a function or a class
FirstStatementString(tree, n) ==
  /\ tree[n].type = "string"
  /\ tree[n].parent # 0
  /\ LET stmt == tree[n].parent
         body == tree[stmt].parent
     IN  /\ tree[stmt].type = "expression_statement"
         /\ body # 0
         /\ tree[body].type = "block"
         /\ tree[body].children[1] = stmt
         /\ tree[body].parent # 0
         /\ tree[tree[body].parent].type
              \in {"function_definition", "class_definition"}

\* the text of a string literal between its opening and closing delimiters
LiteralContent(tree, n, code) ==
  LET kids == tree[n].children
  IN  Slice(code, tree[kids[1]].end, tree[kids[Len(kids)]].start)

\* the string nodes of the tree that are first statements, in document order
DocstringNodes(tree) ==
  SelectSeq(Preorder(tree, 1), LAMBDA n : FirstStatementString(tree, n))

\* C20: in an extraction with the Python grammar that returns, docstrings
\* receives one entry for each string that is the expression of the first
\* statement of a function or class body and none for any other string
\* (later statements, module level, inside other expressions), and each
\* entry is the text of the literal with its surrounding quotes removed.
C20_DocstringFirstStatementUnquoted ==
  \A e \in Extractors :
    (ExtractedByGrammar(e) /\ input.language = "python"
       /\ result[e].status = "returned") =>
      RawPython.docstrings =
        [k \in 1..Len(DocstringNodes(input.tree)) |->
           strip(LiteralContent(input.tree, DocstringNodes(input.tree)[k],
                                input.code))]

(***************************************************************************)
(* get_code_similarity_features on one entry at a time: a dict whose       *)
(* aggregate holds one name (as a function name and as a variable name),   *)
(* one string or one comment is projected, so that the pattern lists       *)
(* returned show the pattern the loops gave that entry.                    *)
(***************************************************************************)
\* the longest generated name
MaxNameLen == 3

NameAlphabet == {"a", "B", "_"}

GeneratedNames == TextsUpTo(NameAlphabet, MaxNameLen) \ {EmptyText}

SampleNames ==
  { <<"f","o","o">>, <<"f","o","o","B","a","r">>, <<"F","o","o","B","a","r">>,
    <<"M","A","X">>, <<"M","A","X","_","X">>, <<"g","e","t","_","x">>,
    <<"i","d">>, <<"x","1","2">> }

SampleStrings ==
  { <<"h","t","t","p",":","/","/","a">>,
    <<"h","t","t","p","s",":","/","/","a","@","b">>,
    <<"h","t","t","p","d"," ","i","s"," ","u","p">>,
    <<"f","t","p",":","/","/","a",".","b">>,
    <<"h","t","t","p">>,
    <<"a","@","b",".","o","r","g">>,
    <<"1","2","@","4","5","6">>,
    <<"a","@","b">>,
    <<"1","2","3","4","5","6">>,
    <<"1","2","3","4","5">>,
    <<"1"," ","2"," ","3"," ","4">>,
    <<"a"," ","b"," ","c"," ","d">>,
    <<"a"," ","b"," ","c","d","e">>,
    <<"a"," ","b"," ","c">>,
    <<"h","e","l","l","o","!">>,
    <<"a","b","c">> }

SampleComments ==
  { <<"#"," ","T","O","D","O",":"," ","f","i","x"," ","t","h","i","s">>,
    <<"/","/"," ","F","i","x","M","e"," ","l","a","t","e","r","!">>,
    <<"/","*"," ","a"," ","h","a","c","k"," ","b","y"," ","t","h","e"," ",
      "a","u","t","h","o","r"," ","*","/">>,
    <<"#"," ","T","O","D","O"," ","f","i","x">>,
    <<"#"," ","C","o","p","y","r","i","g","h","t"," ","2","0","2","4">>,
    <<"/","/"," ","A","u","t","h","o","r",":"," ","m","e","!","!">>,
    <<"#"," ","l","i","c","e","n","s","e">>,
    <<"/","*"," ","a","d","d","s"," ","n","u","m","b","e","r","s"," ","*","/">>,
    <<"#","#","#","#"," ","a","d","d","s"," ","t","w","o"," ","#","#","#","#">>,
    <<"#"," ","h","i">> }

\* the dict whose aggregate holds the one entry in the given lists
EntryDict(fields, entry) ==
  [aggregated_features |-> [field \in fields |-> <<entry>>]]

ClassifyInput(kind, entry, fields) ==
  [op |-> "classify", kind |-> kind, entry |-> entry,
   features |-> EntryDict(fields, entry)]

ClassifyInputs ==
  {ClassifyInput("name", n, {"function_names", "variable_names"}) :
     n \in GeneratedNames \cup SampleNames}
    \cup {ClassifyInput("string", s, {"strings"}) : s \in SampleStrings}
    \cup {ClassifyInput("comment", c, {"comments"}) : c \in SampleComments}

ClassifyInit ==
  /\ loadable = [e \in Extractors |-> AllGrammars]
  /\ parsers = [e \in Extractors |-> _init_languages({}, loadable[e])]
  /\ languages = [e \in Extractors |-> _init_languages({}, loadable[e])]
  /\ hashseed \in [Extractors -> HashSeeds]
  /\ input \in ClassifyInputs
  /\ result = [e \in Extractors |-> NoResult]

ClassifyNext == GetCodeSimilarityFeatures

SpecClassify == ClassifyInit /\ [][ClassifyNext]_vars

(***************************************************************************)
(* Properties of the classifications.                                      *)
(***************************************************************************)
\* the one entry of the given kind has been classified
Classified(kind) ==
  input.op = "classify" /\ input.kind = kind /\ result[2] # NoResult

\* the bucket a pattern list shows for the one entry: its label, or other
\* when no label was appended
Bucket(patterns) == IF patterns = << >> THEN "other" ELSE patterns[1]

NamingBuckets == {"snake_case", "camelCase", "PascalCase", "CONSTANT", "other"}

\* C21: every name is given exactly one of the five buckets snake_case,
\* camelCase, PascalCase, CONSTANT or other as a function name and as a
\* variable name, and, the heuristics being the same for both kinds, the
\* same bucket as either.
C21_SameBucketBothKinds ==
  Classified("name") =>
    /\ Len(result[2].value.function_signature_patterns) <= 1
    /\ Len(result[2].value.variable_naming_patterns) <= 1
    /\ Bucket(result[2].value.function_signature_patterns) \in NamingBuckets
    /\ Bucket(result[2].value.variable_naming_patterns) \in NamingBuckets
    /\ Bucket(result[2].value.function_signature_patterns)
         = Bucket(result[2].value.variable_naming_patterns)

\* the text starts with a URL scheme: letters followed by ://
StartsWithScheme(s) ==
  \E k \in 1..Len(s) :
    /\ \A i \in 1..k : s[i] \in Range(LowerLetters) \cup Range(UpperLetters)
    /\ Len(s) >= k + 3
    /\ SubSeq(s, k + 1, k + 3) = <<":", "/", "/">>

\* the whitespace-separated tokens of the text
Tokens(s) ==
  {i \in 1..Len(s) : s[i] \notin Whitespace /\ (i = 1 \/ s[i - 1] \in Whitespace)}

\* the bucket of a string by the order url, email, numeric, sentence, where
\* url tells whether the string counts as a URL
StringBucket(s, url) ==
  IF url THEN "url_pattern"
  ELSE IF \E i \in 1..Len(s) : s[i] = "@" THEN "email_pattern"
  ELSE IF s # << >> /\ \A i \in 1..Len(s) : s[i] \in Digits THEN "numeric_string"
  ELSE IF Cardinality(Tokens(s)) > 3 THEN "sentence_pattern"
  ELSE "other"

\* C22 as stated: each string is given at most one bucket, decided in the
\* order url_pattern (starts with a URL scheme), email_pattern (contains
\* @), numeric_string (all digits), sentence_pattern (more than three
\* tokens), else none, whatever its length.
C22_StringBucketsAnyLength ==
  Classified("string") =>
    /\ Len(result[2].value.string_patterns) <= 1
    /\ Bucket(result[2].value.string_patterns)
         = StringBucket(input.entry, StartsWithScheme(input.entry))

\* C22 amended: each string longer than 5 characters is given at most one
\* bucket, decided in the order url_pattern (starts with the characters
\* http), email_pattern (contains @), numeric_string (all digits),
\* sentence_pattern (more than three tokens), else none; a string of 5
\* characters or fewer is given no bucket.
C22_LongStringBuckets ==
  Classified("string") =>
    /\ Len(result[2].value.string_patterns) <= 1
    /\ Bucket(result[2].value.string_patterns)
         = IF Len(input.entry) > 5
             THEN StringBucket(input.entry,
                               Len(input.entry) >= 4
                                 /\ SubSeq(input.entry, 1, 4) = <<"h","t","t","p">>)
             ELSE "other"

\* C22 witness: https://a@b, which meets the conditions of url_pattern and
\* of email_pattern, has been given url_pattern
C22_Witness ==
  /\ Classified("string")
  /\ input.entry = <<"h","t","t","p","s",":","/","/","a","@","b">>
  /\ result[2].value.string_patterns = <<"url_pattern">>

\* the text holds the word, in any letter case
HoldsWord(s, word) ==
  \E i \in 1..(Len(s) - Len(word) + 1) :
    \A j \in 1..Len(word) : LowerChar(s[i + j - 1]) = word[j]

TodoMarkers ==
  { <<"t","o","d","o">>, <<"f","i","x","m","e">>, <<"h","a","c","k">> }

HeaderMarkers ==
  { <<"c","o","p","y","r","i","g","h","t">>, <<"l","i","c","e","n","s","e">>,
    <<"a","u","t","h","o","r">> }

\* the bucket of a comment by its markers: todo before header, and
\* description for a comment with neither
CommentBucket(comment) ==
  IF \E word \in TodoMarkers : HoldsWord(comment, word) THEN "todo_comment"
  ELSE IF \E word \in HeaderMarkers : HoldsWord(comment, word)
    THEN "header_comment"
  ELSE "description_comment"

\* the comment without the #, /, * and spaces at its two ends
CommentBody(comment) ==
  LET marks == {"#", "/", "*", " "}
      inner == {i \in 1..Len(comment) : comment[i] \notin marks}
  IN  IF inner = {} THEN << >>
      ELSE SubSeq(comment, CHOOSE i \in inner : \A j \in inner : i <= j,
                           CHOOSE i \in inner : \A j \in inner : i >= j)

\* C23 as stated: every comment is given exactly one of todo_comment (it
\* holds TODO, FIXME or HACK in any letter case), else header_comment (it
\* holds copyright, license or author), else description_comment.
C23_EveryCommentBucketed ==
  Classified("comment") =>
    result[2].value.comment_patterns = <<CommentBucket(input.entry)>>

\* C23 amended: every comment whose text without the #, /, * and spaces at
\* its ends is longer than 10 characters is given exactly one of
\* todo_comment, else header_comment, else description_comment, by the
\* markers it holds in any letter case; a comment whose text without them
\* is 10 characters or shorter is given none.
C23_LongCommentBucketed ==
  Classified("comment") =>
    result[2].value.comment_patterns =
      IF Len(CommentBody(input.entry)) > 10
        THEN <<CommentBucket(input.entry)>>
        ELSE << >>

\* C23 witness: a comment that holds hack and author has been given
\* todo_comment
C23_Witness ==
  /\ Classified("comment")
  /\ \E word \in HeaderMarkers : HoldsWord(input.entry, word)
  /\ result[2].value.comment_patterns = <<"todo_comment">>

(***************************************************************************)
(* Properties of the entries of the lists.                                 *)
(***************************************************************************)
\* x is a text of the source: a sequence whose elements are characters of
\* the source text (and neither texts nor tuples themselves)
IsText(x) ==
  \A i \in 1..Len(x) :
    ToString(x[i]) \in {ToString(input.code[j]) : j \in 1..Len(input.code)}

\* C24: every entry of every list field of a CodeFeatures returned by
\* extract_features is a text, for every language and on both paths.
C24_EntriesAreText ==
  \A e \in Extractors :
    ExtractReturned(e) =>
      \A field \in ListFields :
        \A k \in 1..Len(result[e].value[field]) :
          IsText(result[e].value[field][k])

\* the texts the quoted-string pattern i matches in the code, whole
QuotedLiterals(i, code) ==
  LET ms == findall(ReGroup(2, string_patterns[i]), 2, code)
  IN  [k \in 1..Len(ms) |-> ms[k][2]]

\* what lies between the delimiters of the literals the three patterns
\* match, pattern by pattern
LiteralContents(code) ==
  ExtendAll(<< >>,
            [i \in 1..Len(string_patterns) |->
               LET ls == QuotedLiterals(i, code)
               IN  [k \in 1..Len(ls) |-> Slice(ls[k], 1, Len(ls[k]) - 1)]])

\* C25: each entry the fallback path appends to strings is the text between
\* the delimiters of the quoted literal it matched, for each of the three
\* delimiters, whatever the length of the literal and with the escaped
\* delimiters it holds.
C25_FallbackStringsAreContents ==
  \A e \in Extractors :
    (ExtractReturned(e) /\ ViaFallback(e)) =>
      result[e].value.strings = LiteralContents(input.code)

(***************************************************************************)
(* Properties of the dispatch on the language.                             *)
(***************************************************************************)
\* C26: no language of a registry is dispatched to the generic rule set,
\* and no extraction that takes the grammar path runs it, whatever the
\* registry and the language argument.
C26_GenericUnreachable ==
  \A e \in Extractors :
    /\ \A language \in parsers[e] : RuleSetOf(language) # "generic"
    /\ ExtractedByGrammar(e) => RuleSetOf(input.language) # "generic"

\* C26 witness: an extractor that holds the php grammar, the language of
\* the last branch of the dispatch, has returned from an extraction of a
\* php source with the grammar
C26_Witness ==
  \E e \in Extractors :
    /\ ExtractedByGrammar(e)
    /\ input.language = "php"
    /\ input.code # EmptyText
    /\ result[e].status = "returned"

(***************************************************************************)
(* GitHubService.get_repository_commits (github.py): the listing request,  *)
(* then one detail request for each commit of the listing, up to the       *)
(* limit.  A step is the answer to one request and the code that runs up   *)
(* to the next request, the return or the raise.                           *)
(***************************************************************************)
\* limit = 25
limit == 25

\* the longest commit listing
MaxListing == 27

\* a listing of n commits, each named by its sha
Listing(n) == [k \in 1..n |-> n - k + 1]

CommitsInput(commits_data) ==
  [op |-> "get_repository_commits", commits_data |-> commits_data]

CommitsInputs == {CommitsInput(Listing(n)) : n \in 0..MaxListing}

\* the local variables of a call that waits for the detail of commit i + 1
Fetching(i, commits, truncated) ==
  [status |-> "fetching", i |-> i, commits |-> commits, truncated |-> truncated]

\* commit_info of a commit
CommitInfo(sha) == [sha |-> sha, total_files |-> 0]

\* lines 365-405: the top of the loop for index i.  Another item and
\* i >= limit: break, and the else clause is skipped; another item: its
\* detail is requested; no item left: the else clause runs; then the return.
AfterResponse(commits_data, i, commits, truncated) ==
  IF i < Len(commits_data) /\ i >= limit
    THEN Returned([commits |-> commits, total_commits |-> Len(commits_data),
                   truncated |-> truncated])
  ELSE IF i < Len(commits_data)
    THEN Fetching(i, commits, truncated)
  ELSE Returned([commits |-> commits, total_commits |-> Len(commits_data),
                 truncated |-> (IF Len(commits_data) > limit
                                  THEN TRUE ELSE truncated)])

CommitsInit ==
  /\ loadable = [e \in Extractors |-> AllGrammars]
  /\ parsers = [e \in Extractors |-> _init_languages({}, loadable[e])]
  /\ languages = [e \in Extractors |-> _init_languages({}, loadable[e])]
  /\ hashseed \in [Extractors -> HashSeeds]
  /\ input \in CommitsInputs
  /\ result = [e \in Extractors |-> NoResult]

\* lines 355-360: the listing request is answered, with the listing or with
\* an error status
ListCommits ==
  /\ input.op = "get_repository_commits"
  /\ result[1] = NoResult
  /\ \E ok \in BOOLEAN :
       result' = [result EXCEPT
                    ![1] = IF ok
                             THEN AfterResponse(input.commits_data, 0, << >>, FALSE)
                             ELSE Raised("Exception")]
  /\ UNCHANGED <<loadable, parsers, languages, hashseed, input>>

\* lines 369-400: the detail request of commit i + 1 is answered
GetCommit ==
  /\ result[1].status = "fetching"
  /\ \E ok \in BOOLEAN :
       result' = [result EXCEPT
                    ![1] = IF ok
                             THEN AfterResponse(
                                    input.commits_data, result[1].i + 1,
                                    Append(result[1].commits,
                                           CommitInfo(input.commits_data[result[1].i + 1])),
                                    result[1].truncated)
                             ELSE Raised("Exception")]
  /\ UNCHANGED <<loadable, parsers, languages, hashseed, input>>

CommitsNext == ListCommits \/ GetCommit

SpecCommits == CommitsInit /\ [][CommitsNext]_vars

\* C27: get_repository_commits returns the detail records of the first 25
\* commits of the listing at most, in the order of the listing, and its
\* truncated flag is true exactly when the listing held more than 25.
C27_TruncatedOverLimit ==
  (input.op = "get_repository_commits" /\ result[1].status = "returned") =>
    LET n == Len(input.commits_data)
        kept == IF n > 25 THEN 25 ELSE n
    IN  /\ Len(result[1].value.commits) <= 25
        /\ result[1].value.commits =
             [k \in 1..kept |-> CommitInfo(input.commits_data[k])]
        /\ result[1].value.truncated = (n > 25)

(***************************************************************************)
(* get_code_features (routes.py): the selection of the files, one step for *)
(* each file, and the response.  The services answer without raising;      *)
(* assigned is the set of local variables that have been given a value,    *)
(* and reading any other raises UnboundLocalError, which the except of     *)
(* lines 252-254 turns into HTTP 400.                                      *)
(***************************************************************************)
\* max_files = 20
max_files == 20

\* the longest list of file paths, supplied or selected
MaxSelected == 22

\* n file paths
Paths(n) == [k \in 1..n |-> k]

\* supplied tells whether the caller gives file_paths (None otherwise);
\* readme tells whether get_readme_content finds a README; selection is
\* what the AI service selects
CodeFeaturesInput(supplied, file_paths, readme, selection) ==
  [op |-> "get_code_features", supplied |-> supplied,
   file_paths |-> file_paths, readme |-> readme, selection |-> selection]

CodeFeaturesInputs ==
  {CodeFeaturesInput(TRUE, Paths(n), readme, << >>) :
     n \in 0..MaxSelected, readme \in BOOLEAN}
    \cup {CodeFeaturesInput(FALSE, << >>, readme, Paths(n)) :
            n \in 0..MaxSelected, readme \in BOOLEAN}

\* raise HTTPException(status_code=400, detail=str(e))
HTTPException(detail) ==
  [status |-> "raised", exception |-> "HTTPException", status_code |-> 400,
   detail |-> detail]

\* the call is in the loop of lines 193-226, k files done
Extracting(assigned, selected_files, k, files) ==
  [status |-> "extracting", assigned |-> assigned,
   selected_files |-> selected_files, k |-> k, files |-> files]

\* selected_files[:max_files]
Truncate(selected_files) ==
  IF Len(selected_files) > max_files
    THEN SubSeq(selected_files, 1, max_files)
    ELSE selected_files

\* lines 193 and 228-250: the next file, or, after the last, the response,
\* which reads structure, file_selection and readme_analysis
AfterFile(assigned, selected_files, k, files) ==
  IF k < Len(selected_files)
    THEN Extracting(assigned, selected_files, k, files)
  ELSE IF ~({"structure", "file_selection", "readme_analysis"} \subseteq assigned)
    THEN HTTPException("UnboundLocalError")
  ELSE Returned([files_analyzed_in_detail |-> files,
                 readme_available |-> TRUE])

\* lines 158-182: up to the loop over the files
SelectFiles(supplied, file_paths, readme, selection) ==
  IF supplied
    THEN AfterFile({"selected_files"}, Truncate(file_paths), 0, 0)
    ELSE
      LET a1 == {"readme_content"}
                  \cup (IF readme THEN {"readme_analysis"} ELSE {})
          a2 == a1 \cup {"structure"}
      IN  IF "readme_analysis" \notin a2
            THEN HTTPException("UnboundLocalError")
            ELSE AfterFile(a2 \cup {"file_selection", "selected_files"},
                           Truncate(selection), 0, 0)

CodeFeaturesInit ==
  /\ loadable = [e \in Extractors |-> AllGrammars]
  /\ parsers = [e \in Extractors |-> _init_languages({}, loadable[e])]
  /\ languages = [e \in Extractors |-> _init_languages({}, loadable[e])]
  /\ hashseed = [e \in Extractors |-> 0]
  /\ input \in CodeFeaturesInputs
  /\ result = [e \in Extractors |-> NoResult]

GetCodeFeatures ==
  /\ input.op = "get_code_features"
  /\ result[1] = NoResult
  /\ result' = [result EXCEPT
                  ![1] = SelectFiles(input.supplied, input.file_paths,
                                     input.readme, input.selection)]
  /\ UNCHANGED <<loadable, parsers, languages, hashseed, input>>

\* lines 193-226: one file of the loop; a file without content and a file
\* whose extraction raises are skipped
ExtractFile ==
  /\ result[1].status = "extracting"
  /\ \E outcome \in {"features", "no_content", "exception"} :
       result' = [result EXCEPT
                    ![1] = AfterFile(result[1].assigned,
                                     result[1].selected_files,
                                     result[1].k + 1,
                                     result[1].files
                                       + (IF outcome = "features" THEN 1 ELSE 0))]
  /\ UNCHANGED <<loadable, parsers, languages, hashseed, input>>

CodeFeaturesNext == GetCodeFeatures \/ ExtractFile

SpecCodeFeatures == CodeFeaturesInit /\ [][CodeFeaturesNext]_vars

\* the call has ended
CodeFeaturesEnded ==
  input.op = "get_code_features" /\ result[1].status \in {"returned", "raised"}

\* C28: get_code_features ends with a response and not with HTTP 400 when
\* the caller supplies file_paths, and when file_paths is omitted and the
\* repository has no README; and at most 20 files are processed.
C28_ResponseInEveryMode ==
  /\ (CodeFeaturesEnded /\ (input.supplied \/ ~input.readme)) =>
       result[1].status = "returned"
  /\ (input.op = "get_code_features" /\ result[1].status = "extracting") =>
       /\ Len(result[1].selected_files) <= 20
       /\ result[1].k <= 20

(***************************************************************************)
(* SummerOfMakingService.get_project_data (summer_of_making.py): the v2    *)
(* request and, after a 404, the v1 request.  A step is the sending of a   *)
(* request or its answer; requests is the list of the requests the client  *)
(* has sent, each with the answer it got.                                  *)
(***************************************************************************)
\* the largest project id
MaxProjectId == 3

\* what a request can end in: a JSON body, a body that is not JSON, the
\* status 404, another error status, no answer at all
Answers == {"json", "not_json", "404", "500", "timeout"}

ProjectInput(project_id) == [op |-> "get_project_data", project_id |-> project_id]

ProjectInputs == {ProjectInput(id) : id \in 1..MaxProjectId}

\* a request that waits for its answer
Request(api, project_id) ==
  [api |-> api, project_id |-> project_id, answer |-> "pending"]

\* the call waits for the answer to the last of its requests
Awaiting(requests) == [status |-> "awaiting", requests |-> requests]

\* the call has ended: it returned value, or raised, after those requests
Ended(status, value, requests) ==
  [status |-> status, value |-> value, requests |-> requests]

\* response.json() of an answered request
Json(request) == <<request.api, request.project_id>>

\* the requests with the answer to the last one filled in
Answered(requests, answer) ==
  [requests EXCEPT ![Len(requests)].answer = answer]

\* a variant that falls back to v1 after any error status
AfterV2AnyStatus(requests, answer) ==
  LET rs == Answered(requests, answer)
  IN  IF answer = "json" THEN Ended("returned", Json(rs[1]), rs)
      ELSE IF answer \in {"404", "500"}
        THEN Awaiting(Append(rs, Request("v1", rs[1].project_id)))
      ELSE Ended("raised", <<"Exception">>, rs)

\* lines 32-35 and 37-38, 46-50: the answer to the v2 request
AfterV2(requests, answer) ==
  LET rs == Answered(requests, answer)
  IN  IF answer = "json" THEN Ended("returned", Json(rs[1]), rs)
      ELSE IF answer = "404"
        THEN Awaiting(Append(rs, Request("v1", rs[1].project_id)))
      ELSE Ended("raised", <<"Exception">>, rs)

\* lines 41-45: the answer to the v1 request
AfterV1(requests, answer) ==
  LET rs == Answered(requests, answer)
  IN  IF answer = "json" THEN Ended("returned", Json(rs[2]), rs)
      ELSE Ended("returned", <<None>>, rs)

ProjectInit ==
  /\ loadable = [e \in Extractors |-> AllGrammars]
  /\ parsers = [e \in Extractors |-> _init_languages({}, loadable[e])]
  /\ languages = [e \in Extractors |-> _init_languages({}, loadable[e])]
  /\ hashseed \in [Extractors -> HashSeeds]
  /\ input \in ProjectInputs
  /\ result = [e \in Extractors |-> NoResult]

\* lines 30-32: the v2 request is sent
GetProjectData ==
  /\ input.op = "get_project_data"
  /\ result[1] = NoResult
  /\ result' = [result EXCEPT
                  ![1] = Awaiting(<<Request("v2", input.project_id)>>)]
  /\ UNCHANGED <<loadable, parsers, languages, hashseed, input>>

ReceiveV2 ==
  /\ result[1].status = "awaiting"
  /\ Len(result[1].requests) = 1
  /\ \E answer \in Answers :
       result' = [result EXCEPT ![1] = AfterV2(result[1].requests, answer)]
  /\ UNCHANGED <<loadable, parsers, languages, hashseed, input>>

ReceiveV1 ==
  /\ result[1].status = "awaiting"
  /\ Len(result[1].requests) = 2
  /\ \E answer \in Answers :
       result' = [result EXCEPT ![1] = AfterV1(result[1].requests, answer)]
  /\ UNCHANGED <<loadable, parsers, languages, hashseed, input>>

ProjectNext == GetProjectData \/ ReceiveV2 \/ ReceiveV1

SpecProjectData == ProjectInit /\ [][ProjectNext]_vars

\* a call of get_project_data is under way or has ended
ProjectCalled == input.op = "get_project_data" /\ result[1] # NoResult

\* C29: get_project_data sends the v2 request first and two requests at
\* most; the v1 request is sent exactly when v2 answered 404; the call
\* returns the v2 response when v2 succeeded, the v1 response when v2
\* answered 404 and v1 succeeded, None when v2 answered 404 and v1 failed
\* in any way, and raises when v2 failed in any other way.
C29_TwoStepFallback ==
  ProjectCalled =>
    LET rs == result[1].requests
        v2 == rs[1].answer
    IN  /\ Len(rs) \in {1, 2}
        /\ rs[1].api = "v2" /\ rs[1].project_id = input.project_id
        /\ Len(rs) = 2 <=> v2 = "404"
        /\ Len(rs) = 2 =>
             rs[2].api = "v1" /\ rs[2].project_id = input.project_id
        /\ result[1].status \in {"returned", "raised"} =>
             /\ v2 = "json" =>
                  result[1].status = "returned"
                    /\ result[1].value = <<"v2", input.project_id>>
             /\ (v2 = "404" /\ rs[2].answer = "json") =>
                  result[1].status = "returned"
                    /\ result[1].value = <<"v1", input.project_id>>
             /\ (v2 = "404" /\ rs[2].answer # "json") =>
                  result[1].status = "returned" /\ result[1].value = <<None>>
             /\ v2 \notin {"json", "404"} => result[1].status = "raised"

\* C29 witness: v2 answered 404, the v1 request timed out, and the call
\* returned None after its two requests
C29_Witness ==
  /\ ProjectCalled
  /\ result[1].status = "returned"
  /\ result[1].value = <<None>>
  /\ Len(result[1].requests) = 2
  /\ result[1].requests[2].answer = "timeout"

(***************************************************************************)
(* GitHubService.get_readme_content (github.py): the candidate names are   *)
(* tried in order, one step for each; tried is the list of the names whose *)
(* content has been requested.                                             *)
(***************************************************************************)
readme_files ==
  << "README.md", "readme.md", "Readme.md", "README.rst", "readme.rst",
     "Readme.rst", "README.txt", "readme.txt", "Readme.txt", "README",
     "readme" >>

\* what the fetch of a candidate can end in: content that decodes, content
\* that is not base64 or not UTF-8, the status 404, another API error
Fetches == {"decoded", "undecodable", "404", "api_error"}

\* the largest number of leading candidates that fail
MaxFailing == 11

ReadmeInput(failing, last) ==
  [op |-> "get_readme_content", failing |-> failing, last |-> last]

\* the repositories: the fetches of the first failing candidates fail, each
\* in one way or another, and the fetch of every later candidate ends in
\* last
ReadmeInputs ==
  {ReadmeInput(failing, last) : failing \in 0..MaxFailing, last \in Fetches}

\* the call is about to try candidate number Len(tried) + 1
Trying(tried) == [status |-> "trying", tried |-> tried]

\* the call has returned value after trying those candidates
ReadmeReturned(value, tried) ==
  [status |-> "returned", value |-> value, tried |-> tried]

\* a variant of the loop that gives up at the first error that is no 404
AfterFetchStopOnError(tried, fetch) ==
  IF fetch = "decoded"
    THEN ReadmeReturned(<<"content", tried[Len(tried)]>>, tried)
  ELSE IF fetch \in {"undecodable", "api_error"} \/ Len(tried) = Len(readme_files)
    THEN ReadmeReturned(<<None>>, tried)
  ELSE Trying(tried)

\* lines 320-338: the fetch of the last candidate tried has ended
AfterFetch(tried, fetch) ==
  IF fetch = "decoded"
    THEN ReadmeReturned(<<"content", tried[Len(tried)]>>, tried)
  ELSE IF Len(tried) = Len(readme_files)
    THEN ReadmeReturned(<<None>>, tried)
  ELSE Trying(tried)

ReadmeInit ==
  /\ loadable = [e \in Extractors |-> AllGrammars]
  /\ parsers = [e \in Extractors |-> _init_languages({}, loadable[e])]
  /\ languages = [e \in Extractors |-> _init_languages({}, loadable[e])]
  /\ hashseed \in [Extractors -> HashSeeds]
  /\ input \in ReadmeInputs
  /\ result = [e \in Extractors |-> NoResult]

\* line 312: the call begins
GetReadmeContent ==
  /\ input.op = "get_readme_content"
  /\ result[1] = NoResult
  /\ result' = [result EXCEPT ![1] = Trying(<< >>)]
  /\ UNCHANGED <<loadable, parsers, languages, hashseed, input>>

\* lines 320-335: one candidate is fetched and decoded
TryCandidate ==
  /\ result[1].status = "trying"
  /\ LET tried == Append(result[1].tried, readme_files[Len(result[1].tried) + 1])
     IN  \E fetch \in Fetches :
           /\ IF Len(tried) <= input.failing
                THEN fetch # "decoded"
                ELSE fetch = input.last
           /\ result' = [result EXCEPT ![1] = AfterFetch(tried, fetch)]
  /\ UNCHANGED <<loadable, parsers, languages, hashseed, input>>

ReadmeNext == GetReadmeContent \/ TryCandidate

SpecReadme == ReadmeInit /\ [][ReadmeNext]_vars

\* a call of get_readme_content is under way or has ended
ReadmeCalled == input.op = "get_readme_content" /\ result[1] # NoResult

\* the number of the first candidate whose fetch and decoding succeed, 0
\* when there is none
FirstGood ==
  IF input.last = "decoded" /\ input.failing < 11 THEN input.failing + 1 ELSE 0

\* C30: get_readme_content tries the eleven candidate names in the order of
\* the list; it returns the decoded content of the first candidate whose
\* fetch and decoding succeed, having tried no later candidate; after any
\* failure it goes on to the next candidate; it returns None exactly when
\* all eleven have failed; and it never raises.
C30_FirstReadableCandidate ==
  ReadmeCalled =>
    LET tried == result[1].tried
    IN  /\ Len(readme_files) = 11
        /\ Len(tried) <= 11
        /\ tried = SubSeq(readme_files, 1, Len(tried))
        /\ result[1].status \in {"trying", "returned"}
        /\ result[1].status = "trying" =>
             Len(tried) < 11 /\ (FirstGood = 0 \/ Len(tried) < FirstGood)
        /\ result[1].status = "returned" =>
             /\ FirstGood # 0 =>
                  /\ Len(tried) = FirstGood
                  /\ result[1].value = <<"content", readme_files[FirstGood]>>
             /\ FirstGood = 0 =>
                  Len(tried) = 11 /\ result[1].value = <<None>>
             /\ result[1].value = <<None>> <=> FirstGood = 0

\* C30 witness: the first three candidates failed and the call returned
\* the content of the fourth, README.rst, having tried four
C30_Witness ==
  /\ ReadmeCalled
  /\ input.failing = 3
  /\ result[1].status = "returned"
  /\ result[1].value = <<"content", "README.rst">>
  /\ Len(result[1].tried) = 4

====
